---------------------------- MODULE Spec2Model ----------------------------
(***************************************************************************)
(* Model of the symbolic equation solver.                                  *)
(*                                                                         *)
(* The parts modelled here:                                                *)
(*   backend/utils/plot3dSolver.js   evaluate3DFunction, generate3DData,   *)
(*                                   validate3DExpression                  *)
(*   backend/routes/plot3d.js        POST /surface, /evaluate, /validate   *)
(*   backend/utils/mathSolver.js     solveMathExpression and its handlers  *)
(*   backend/routes/math.js          POST /solve, /validate                *)
(*   backend/server.js               the mounts of the two routers         *)
(*   frontend/src/components/Plot3D.js   useFunction3D, Surface3D, Plot3D  *)
(*   frontend/src/pages/Solver.js        EquationInput, Solver             *)
(*                                                                         *)
(* JavaScript numbers are modelled as exact rationals <<n, d>> in lowest   *)
(* terms with d > 0, extended by Infinity = <<1, 0>>, -Infinity = <<-1, 0>>*)
(* and NaN = <<0, 0>>.  Rounding of IEEE doubles is not modelled; the      *)
(* inputs enumerated below are small integers, on which the grid           *)
(* arithmetic of the code is exact up to that rounding.                    *)
(*                                                                         *)
(* A string holding an expression is modelled as the sequence of its       *)
(* lexical tokens; a regular expression \bname\b matches exactly the       *)
(* identifier tokens spelled name.                                         *)
(***************************************************************************)
EXTENDS Integers, Sequences, FiniteSets, TLC

(***************************************************************************)
(* JavaScript numbers                                                      *)
(***************************************************************************)
Abs(n) == IF n < 0 THEN -n ELSE n

Sign(n) == IF n < 0 THEN -1 ELSE IF n > 0 THEN 1 ELSE 0

RECURSIVE Gcd(_, _)
Gcd(a, b) == IF b = 0 THEN a ELSE Gcd(b, a % b)

\* the number n/d; d = 0 gives Infinity, -Infinity or NaN as IEEE division does
Norm(n, d) ==
    IF d = 0 THEN <<Sign(n), 0>>
    ELSE LET g == Gcd(Abs(n), Abs(d))
         IN  <<(Sign(d) * n) \div g, Abs(d) \div g>>

Num(k) == <<k, 1>>
Zero == <<0, 1>>
Infinity == <<1, 0>>
NegInfinity == <<-1, 0>>
NaN == <<0, 0>>

\* isFinite(v)
IsFinite(v) == v[2] # 0

IsInteger(v) == v[2] = 1

\* !v for a number v: 0 and NaN are falsy
Falsy(v) == v = Zero \/ v = NaN

Neg(p) == <<-p[1], p[2]>>

Add(p, q) ==
    IF p = NaN \/ q = NaN THEN NaN
    ELSE IF p[2] = 0 /\ q[2] = 0 THEN (IF p = q THEN p ELSE NaN)
    ELSE IF p[2] = 0 THEN p
    ELSE IF q[2] = 0 THEN q
    ELSE Norm(p[1] * q[2] + q[1] * p[2], p[2] * q[2])

Sub(p, q) == Add(p, Neg(q))

Mul(p, q) == Norm(p[1] * q[1], p[2] * q[2])

Div(p, q) ==
    IF p[2] = 0 /\ q[2] # 0
    THEN (IF p = NaN THEN NaN ELSE <<Sign(p[1]) * (IF q[1] < 0 THEN -1 ELSE 1), 0>>)
    ELSE Norm(p[1] * q[2], p[2] * q[1])

RECURSIVE PowNat(_, _)
PowNat(b, k) == IF k = 0 THEN Num(1) ELSE Mul(b, PowNat(b, k - 1))

\* b ^ e.  Only integer exponents have a rational value; the equations
\* enumerated below use integer literals as exponents.
Pow(b, e) ==
    IF ~IsInteger(e) THEN NaN
    ELSE IF e[1] >= 0 THEN PowNat(b, e[1])
    ELSE Div(Num(1), PowNat(b, -e[1]))

\* p < q (false when either is NaN)
Lt(p, q) ==
    IF p = NaN \/ q = NaN THEN FALSE
    ELSE IF p[2] = 0 \/ q[2] = 0
         THEN (IF p[2] = 0 THEN p[1] ELSE 0) < (IF q[2] = 0 THEN q[1] ELSE 0)
              \/ (p[2] = 0 /\ p[1] < 0 /\ q[2] # 0)
              \/ (q[2] = 0 /\ q[1] > 0 /\ p[2] # 0)
         ELSE p[1] * q[2] < q[1] * p[2]

Leq(p, q) == p # NaN /\ q # NaN /\ ~Lt(q, p)

\* Math.min(p, q), Math.max(p, q)
MathMin(p, q) == IF p = NaN \/ q = NaN THEN NaN ELSE IF Lt(q, p) THEN q ELSE p
MathMax(p, q) == IF p = NaN \/ q = NaN THEN NaN ELSE IF Lt(p, q) THEN q ELSE p

(***************************************************************************)
(* Expression strings as token sequences, and the mathjs evaluate() call   *)
(* on the subset of its grammar the modelled equations use:                *)
(*   + -  <  * /  <  unary -  <  ^ (right associative)  <  ( ) number name *)
(***************************************************************************)
Op(s) == [t |-> "op", s |-> s, v |-> Zero]
Sym(s) == [t |-> "sym", s |-> s, v |-> Zero]
Lit(v) == [t |-> "num", s |-> "", v |-> v]

IsOp(toks, p, s) == p <= Len(toks) /\ toks[p].t = "op" /\ toks[p].s = s

\* value.toString() of a finite number: a leading minus sign, then the digits
NumberToString(v) ==
    IF v[1] < 0 THEN <<Op("-"), Lit(Neg(v))>> ELSE <<Lit(v)>>

\* str.replace(/\bname\b/g, replacement)
RECURSIVE ReplaceWord(_, _, _)
ReplaceWord(toks, name, replacement) ==
    IF toks = <<>> THEN <<>>
    ELSE (IF Head(toks).t = "sym" /\ Head(toks).s = name
          THEN replacement ELSE <<Head(toks)>>)
         \o ReplaceWord(Tail(toks), name, replacement)

Fail(p) == [ok |-> FALSE, v |-> NaN, p |-> p]
Ok(v, p) == [ok |-> TRUE, v |-> v, p |-> p]

\* The recursive-descent parser of mathjs, evaluating as it parses.  rule
\* names the grammar rule; p is the position of the next token; the "...Rest"
\* rules continue a left-associative chain whose value so far is acc.
RECURSIVE Parse(_, _, _, _)
Parse(toks, rule, p, acc) ==
    CASE rule = "addSubtract" ->
            Parse(toks, "addSubtractRest", p, Parse(toks, "multiplyDivide", p, acc))
      [] rule = "addSubtractRest" ->
            IF ~acc.ok THEN acc
            ELSE IF IsOp(toks, acc.p, "+") \/ IsOp(toks, acc.p, "-")
                 THEN LET r == Parse(toks, "multiplyDivide", acc.p + 1, acc)
                          v == IF IsOp(toks, acc.p, "+") THEN Add(acc.v, r.v)
                               ELSE Sub(acc.v, r.v)
                      IN  IF r.ok THEN Parse(toks, "addSubtractRest", r.p, Ok(v, r.p))
                          ELSE r
            ELSE acc
      [] rule = "multiplyDivide" ->
            Parse(toks, "multiplyDivideRest", p, Parse(toks, "unary", p, acc))
      [] rule = "multiplyDivideRest" ->
            IF ~acc.ok THEN acc
            ELSE IF IsOp(toks, acc.p, "*") \/ IsOp(toks, acc.p, "/")
                 THEN LET r == Parse(toks, "unary", acc.p + 1, acc)
                          v == IF IsOp(toks, acc.p, "*") THEN Mul(acc.v, r.v)
                               ELSE Div(acc.v, r.v)
                      IN  IF r.ok THEN Parse(toks, "multiplyDivideRest", r.p, Ok(v, r.p))
                          ELSE r
            ELSE acc
      [] rule = "unary" ->
            IF IsOp(toks, p, "-")
            THEN LET r == Parse(toks, "unary", p + 1, acc)
                 IN  IF r.ok THEN Ok(Neg(r.v), r.p) ELSE r
            ELSE Parse(toks, "pow", p, acc)
      [] rule = "pow" ->
            LET b == Parse(toks, "parentheses", p, acc)
            IN  IF b.ok /\ IsOp(toks, b.p, "^")
                THEN LET e == Parse(toks, "unary", b.p + 1, acc)
                     IN  IF e.ok THEN Ok(Pow(b.v, e.v), e.p) ELSE e
                ELSE b
      [] rule = "parentheses" ->
            \* a number, a parenthesised expression, or a symbol; a symbol has
            \* no value in the empty scope evaluate() is called with
            IF p > Len(toks) THEN Fail(p)
            ELSE IF toks[p].t = "num" THEN Ok(toks[p].v, p + 1)
            ELSE IF IsOp(toks, p, "(")
                 THEN LET r == Parse(toks, "addSubtract", p + 1, acc)
                      IN  IF r.ok /\ IsOp(toks, r.p, ")") THEN Ok(r.v, r.p + 1)
                          ELSE Fail(r.p)
            ELSE Fail(p)

\* mathjs evaluate(expression): [ok |-> FALSE] when it throws
Evaluate(toks) ==
    LET r == Parse(toks, "addSubtract", 1, Fail(1))
    IN  IF r.ok /\ r.p = Len(toks) + 1 THEN [ok |-> TRUE, v |-> r.v]
        ELSE [ok |-> FALSE, v |-> NaN]

(***************************************************************************)
(* backend/utils/plot3dSolver.js                                           *)
(***************************************************************************)
MinResolution == 10
MaxResolution == 100
DefaultResolution == 50
DefaultMin == -5
DefaultMax == 5

\* `(${v})` in a template literal
Parenthesised(v) == <<Op("(")>> \o NumberToString(v) \o <<Op(")")>>

\* parameters is an object: the sequence of its [name, value] entries in key
\* order.  Each finite numeric value replaces the whole-word occurrences of
\* its name by value.toString().
RECURSIVE SubstituteParameters(_, _)
SubstituteParameters(equation, parameters) ==
    IF parameters = <<>> THEN equation
    ELSE LET param == Head(parameters)
         IN  SubstituteParameters(
                 IF IsFinite(param.value)
                 THEN ReplaceWord(equation, param.name, NumberToString(param.value))
                 ELSE equation,
                 Tail(parameters))

\* evaluate3DFunction: [ok |-> TRUE, z |-> z] when it returns,
\* [ok |-> FALSE] when it throws
Evaluate3DFunction(equation, x, y, parameters) ==
    IF ~IsFinite(x) \/ ~IsFinite(y) THEN [ok |-> FALSE, z |-> NaN]
    ELSE LET processedEquation == SubstituteParameters(equation, parameters)
             expression == ReplaceWord(
                               ReplaceWord(processedEquation, "x", Parenthesised(x)),
                               "y", Parenthesised(y))
             r == Evaluate(expression)
         IN  IF r.ok /\ IsFinite(r.v) THEN [ok |-> TRUE, z |-> r.v]
             ELSE [ok |-> FALSE, z |-> NaN]

\* arr[k] || fallback, for the k-th element (from 1) of an array of numbers
ElementOr(arr, k, fallback) ==
    IF k <= Len(arr) /\ ~Falsy(arr[k]) THEN arr[k] ELSE fallback

\* Math.max(10, Math.min(100, resolution || 50))
EffectiveResolution(resolution) ==
    MathMax(Num(MinResolution),
            MathMin(Num(MaxResolution),
                    IF Falsy(resolution) THEN Num(DefaultResolution) ELSE resolution))

\* lo + (hi - lo) * (k / res)
GridCoordinate(lo, hi, k, res) == Add(lo, Mul(Sub(hi, lo), Div(Num(k), res)))

EmptyAccumulators ==
    [vertices |-> <<>>, indices |-> <<>>,
     minZ |-> Infinity, maxZ |-> NegInfinity, validCount |-> 0]

\* arrays and counters that are not created anew by a call
KeptAccumulators(old) == old

\* the accumulators generate3DData declares at the top of its body; old holds
\* the ones an earlier call worked on
InitialAccumulators(old) == EmptyAccumulators

\* an invalid sample leaves no vertex
PushSampleSkipInvalid(a, x, y, r) ==
    IF r.ok /\ IsFinite(r.z)
    THEN [a EXCEPT !.vertices = @ \o <<x, y, r.z>>,
                   !.minZ = MathMin(@, r.z),
                   !.maxZ = MathMax(@, r.z),
                   !.validCount = @ + 1]
    ELSE a

\* every sample is counted, valid or not
PushSampleCountAll(a, x, y, r) ==
    IF r.ok /\ IsFinite(r.z)
    THEN [a EXCEPT !.vertices = @ \o <<x, y, r.z>>,
                   !.minZ = MathMin(@, r.z),
                   !.maxZ = MathMax(@, r.z),
                   !.validCount = @ + 1]
    ELSE [a EXCEPT !.vertices = @ \o <<x, y, Zero>>,
                   !.validCount = @ + 1]

\* the body of the sampling loop after the await: r is what
\* evaluate3DFunction settled with
PushSample(a, x, y, r) ==
    IF r.ok
    THEN IF IsFinite(r.z)
         THEN [a EXCEPT !.vertices = @ \o <<x, y, r.z>>,
                        !.minZ = MathMin(@, r.z),
                        !.maxZ = MathMax(@, r.z),
                        !.validCount = @ + 1]
         ELSE [a EXCEPT !.vertices = @ \o <<x, y, Zero>>]
    ELSE [a EXCEPT !.vertices = @ \o <<x, y, Zero>>]

\* a row stride of res + 2 in place of res + 1
QuadIndicesWideStride(i, j, res) ==
    LET a == Add(Mul(Num(i), Add(res, Num(2))), Num(j))
        b == Add(a, Num(1))
        c == Add(Add(a, res), Num(2))
        d == Add(c, Num(1))
    IN  <<a, b, c>> \o <<b, d, c>>

\* the second triangle wound the other way
QuadIndicesFlipped(i, j, res) ==
    LET a == Add(Mul(Num(i), Add(res, Num(1))), Num(j))
        b == Add(a, Num(1))
        c == Add(Add(a, res), Num(1))
        d == Add(c, Num(1))
    IN  <<a, b, c>> \o <<b, c, d>>

\* the six indices of the quad (i, j)
QuadIndices(i, j, res) ==
    LET a == Add(Mul(Num(i), Add(res, Num(1))), Num(j))
        b == Add(a, Num(1))
        c == Add(Add(a, res), Num(1))
        d == Add(c, Num(1))
    IN  <<a, b, c>> \o <<b, d, c>>

\* an inner loop that runs while j <= res
RECURSIVE IndexRowInclusive(_, _, _)
IndexRowInclusive(i, j, res) ==
    IF Leq(Num(j), res)
    THEN QuadIndices(i, j, res) \o IndexRowInclusive(i, j + 1, res)
    ELSE <<>>

\* the inner loop of the triangle mesh generation: what row i pushes from
\* column j on
RECURSIVE IndexRow(_, _, _)
IndexRow(i, j, res) ==
    IF Lt(Num(j), res)
    THEN QuadIndices(i, j, res) \o IndexRow(i, j + 1, res)
    ELSE <<>>

\* the outer loop: what the rows from i on push
RECURSIVE IndexPass(_, _)
IndexPass(i, res) ==
    IF Lt(Num(i), res)
    THEN IndexRow(i, 0, res) \o IndexPass(i + 1, res)
    ELSE <<>>

\* the object generate3DData returns (computationTime is wall-clock time and
\* is left out)
ReturnValue(a, e) ==
    [kind |-> "return",
     vertices |-> a.vertices,
     indices |-> a.indices,
     bounds |-> [x |-> <<e.xMin, e.xMax>>, y |-> <<e.yMin, e.yMax>>,
                 z |-> <<a.minZ, a.maxZ>>],
     statistics |->
         [totalPoints |-> Mul(Add(e.res, Num(1)), Add(e.res, Num(1))),
          validPoints |-> a.validCount,
          invalidPoints |-> Sub(Mul(Add(e.res, Num(1)), Add(e.res, Num(1))),
                                Num(a.validCount)),
          resolution |-> e.res]]

\* the error generate3DData rethrows from its outer catch
Thrown == [kind |-> "throw", message |-> "3D data generation failed: "]

NoResult == [kind |-> "none"]

(***************************************************************************)
(* Requests.  A request body is a record; a field the client left out is   *)
(* absent from the record.                                                 *)
(***************************************************************************)
Has(obj, field) == field \in DOMAIN obj

\* x^2 + y^2
Paraboloid ==
    <<Sym("x"), Op("^"), Lit(Num(2)), Op("+"), Sym("y"), Op("^"), Lit(Num(2))>>
\* x + y + z
UndefinedZ == <<Sym("x"), Op("+"), Sym("y"), Op("+"), Sym("z")>>
\* x / y
Ratio == <<Sym("x"), Op("/"), Sym("y")>>
\* the empty string
EmptyString == <<>>

EquationInputs == {Paraboloid, UndefinedZ, Ratio}

UnitSquare == [x |-> <<Num(-1), Num(1)>>, y |-> <<Num(-1), Num(1)>>]
FromZero == [x |-> <<Num(0), Num(2)>>, y |-> <<Num(-2), Num(0)>>]
NoX == [y |-> <<Num(-1), Num(1)>>]
NoY == [x |-> <<Num(-1), Num(1)>>]

DomainInputs == {UnitSquare, FromZero, NoX, NoY}

ParameterInputs == {<<>>, <<[name |-> "z", value |-> Num(-2)]>>}

\* how many resolutions from MinResolution upwards the requests enumerate
ResolutionSpan == 1
\* how many requests one connection sends
MaxRequests == 2
SmallResolutions ==
    {Num(-3), Num(5)}
    \cup {Num(r) : r \in MinResolution .. MinResolution + ResolutionSpan}

\* requests whose grid has at most (MinResolution + ResolutionSpan + 1)^2 points
SmallBodies ==
    {[equation |-> e, domain |-> d, resolution |-> r, parameters |-> ps] :
        e \in EquationInputs, d \in DomainInputs,
        r \in SmallResolutions, ps \in ParameterInputs}
    \cup {[equation |-> Paraboloid, resolution |-> Num(5)],
          [equation |-> EmptyString, resolution |-> Num(5)],
          [resolution |-> Num(MinResolution)]}

\* requests that run at the default resolution
LargeBodies ==
    {[equation |-> Paraboloid],
     [equation |-> Ratio, domain |-> UnitSquare, resolution |-> Zero]}

Bodies == SmallBodies \cup LargeBodies

\* the requests sent concurrently
ConcurrentBodies ==
    {[equation |-> e, domain |-> UnitSquare, resolution |-> Num(5),
      parameters |-> <<>>] : e \in {Paraboloid, Ratio}}

\* the request slots; a slot handles one request at a time
Calls == {1, 2}

(***************************************************************************)
(* State: one record of each kind per request slot.                        *)
(***************************************************************************)
VARIABLES
    pc,         \* "idle", "await_evaluate" (generate3DData suspended at its
                \* await), "await_generate" (the handler suspended at its
                \* await, generate3DData settled), "responded"
    body,       \* req.body
    args,       \* the arguments generate3DData was called with
    env,        \* xMin, xMax, yMin, yMax, res of the running call
    loop,       \* i, j of the sampling loop
    acc,        \* vertices, indices, minZ, maxZ, validCount
    pending,    \* what the awaited evaluate3DFunction call settled with
    ret,        \* what generate3DData returned or threw
    response,   \* the HTTP response sent
    requests,   \* requests received so far
    prev,       \* the arguments and the outcome of generate3DData for the
                \* request before
    interleaved, \* history: some call has resumed while another call was
                \* suspended inside its sampling loop
    route,      \* the method and path of the request the slot handles
    plot,       \* the Plot3D component of the frontend
    page,       \* the Solver page of the frontend
    visualization, \* the Visualization page of the frontend and the
                \* component it shows
    call        \* a function of the program called on its own: its name,
                \* its arguments and what it returned

vars ==
    <<pc, body, args, env, loop, acc, pending, ret, response, requests, prev,
      interleaved, route, plot, page, visualization, call>>

\* the frontend components, and the function called on its own
frontend == <<plot, page, visualization, call>>

NoBody == [none |-> TRUE]
NoArgs == [none |-> TRUE]
NoEnv == [xMin |-> Zero, xMax |-> Zero, yMin |-> Zero, yMax |-> Zero, res |-> Zero]
NoResponse == [status |-> 0]
NoPending == [ok |-> FALSE, z |-> NaN]
NoRoute == [method |-> "", path |-> <<>>]

\* Plot3D before React mounts it
NotMounted == [mounted |-> FALSE]

\* no function has been called on its own
NoCall == [function |-> "none"]

\* the Solver page: the state the constructor of Solver sets (the useState
\* calls of the page written with hooks), the initial value of the form of
\* EquationInput, and no request in flight (solution: null is the record
\* [null |-> TRUE]).  version tells the two Solver.js of the repository
\* apart by the client each calls the backend with: "axios" is
\* frontend/src/pages/Solver.js, "fetch" the other one.  output is the state
\* of the SolverOutput the page renders, which only the first one has.
InitialPage(version) ==
    [mounted |-> TRUE, version |-> version, equation |-> <<>>,
     currentEquation |-> <<>>, solution |-> [null |-> TRUE], isLoading |-> FALSE,
     request |-> NoRoute,
     output |-> IF version = "axios" THEN [currentPage |-> 1, pageSize |-> 5]
                ELSE [stateless |-> TRUE]]

Init ==
    /\ pc = [c \in Calls |-> "idle"]
    /\ body = [c \in Calls |-> NoBody]
    /\ args = [c \in Calls |-> NoArgs]
    /\ env = [c \in Calls |-> NoEnv]
    /\ loop = [c \in Calls |-> [i |-> 0, j |-> 0]]
    /\ acc = [c \in Calls |-> EmptyAccumulators]
    /\ pending = [c \in Calls |-> NoPending]
    /\ ret = [c \in Calls |-> NoResult]
    /\ response = [c \in Calls |-> NoResponse]
    /\ requests = [c \in Calls |-> 0]
    /\ prev = [c \in Calls |-> [args |-> NoArgs, ret |-> NoResult]]
    /\ interleaved = FALSE
    /\ route = [c \in Calls |-> NoRoute]
    /\ plot = NotMounted
    /\ page = NotMounted
    /\ visualization = NotMounted
    /\ call = NoCall

\* one set of accumulators at module level, used by every call
SharedFrame(c) == 1

\* the accumulators call c reads and writes: its own
Frame(c) == c

\* the sample the loop is at
SampleX(e, l) == GridCoordinate(e.xMin, e.xMax, l.i, e.res)
SampleY(e, l) == GridCoordinate(e.yMin, e.yMax, l.j, e.res)

\* the constants generate3DData derives from its arguments
Environment(a) ==
    [xMin |-> ElementOr(a.domain.x, 1, Num(DefaultMin)),
     xMax |-> ElementOr(a.domain.x, 2, Num(DefaultMax)),
     yMin |-> ElementOr(a.domain.y, 1, Num(DefaultMin)),
     yMax |-> ElementOr(a.domain.y, 2, Num(DefaultMax)),
     res |-> EffectiveResolution(a.resolution)]

\* generate3DData from its first line to its first await (or to its throw)
StartGenerate(c, a) ==
    /\ args' = [args EXCEPT ![c] = a]
    /\ IF ~Has(a.domain, "x") \/ ~Has(a.domain, "y")
       THEN \* domain.x[0] or domain.y[0] raises a TypeError: the outer catch
            /\ ret' = [ret EXCEPT ![c] = Thrown]
            /\ pc' = [pc EXCEPT ![c] = "await_generate"]
            /\ UNCHANGED <<env, loop, acc, pending>>
       ELSE LET e == Environment(a)
                l == [i |-> 0, j |-> 0]
            IN  /\ env' = [env EXCEPT ![c] = e]
                /\ loop' = [loop EXCEPT ![c] = l]
                /\ acc' = [acc EXCEPT ![Frame(c)] = InitialAccumulators(@)]
                /\ pending' = [pending EXCEPT ![c] =
                       Evaluate3DFunction(a.equation, SampleX(e, l), SampleY(e, l),
                                          a.parameters)]
                /\ ret' = [ret EXCEPT ![c] = NoResult]
                /\ pc' = [pc EXCEPT ![c] = "await_evaluate"]

\* the defaults the /surface handler destructures req.body with
RouteDefaultDomain == [x |-> <<Num(-5), Num(5)>>, y |-> <<Num(-5), Num(5)>>]
RouteDefaultResolution == 50

\* router.post('/surface'), from the request to its await (or its 400)
Receive(c, b) ==
    /\ body' = [body EXCEPT ![c] = b]
    /\ requests' = [requests EXCEPT ![c] = @ + 1]
    /\ prev' = [prev EXCEPT ![c] = [args |-> args[c], ret |-> ret[c]]]
    /\ route' = [route EXCEPT ![c] =
           [method |-> "POST", path |-> <<"api", "plot3d", "surface">>]]
    /\ UNCHANGED <<interleaved, frontend>>
    /\ IF ~Has(b, "equation") \/ b.equation = EmptyString
       THEN /\ response' = [response EXCEPT ![c] =
                   [status |-> 400, success |-> FALSE,
                    error |-> "Equation is required for 3D surface generation"]]
            /\ pc' = [pc EXCEPT ![c] = "responded"]
            /\ ret' = [ret EXCEPT ![c] = NoResult]
            /\ UNCHANGED <<args, env, loop, acc, pending>>
       ELSE /\ response' = [response EXCEPT ![c] = NoResponse]
            /\ StartGenerate(c,
                   [equation |-> b.equation,
                    domain |-> IF Has(b, "domain") THEN b.domain
                               ELSE RouteDefaultDomain,
                    resolution |-> IF Has(b, "resolution") THEN b.resolution
                                   ELSE Num(RouteDefaultResolution),
                    parameters |-> IF Has(b, "parameters") THEN b.parameters
                                   ELSE <<>>])

\* a client posts a body from B to /surface
SurfaceRequest(c, B) ==
    /\ pc[c] = "idle"
    /\ \E b \in B : Receive(c, b)

\* the client posts the same body again
RepeatRequest(c) ==
    /\ pc[c] = "responded"
    /\ requests[c] < MaxRequests
    /\ Receive(c, body[c])

\* generate3DData resumes after `await evaluate3DFunction(...)` and runs to
\* its next await or, after the last sample, through the index loop to its
\* return
ResumeSample(c) ==
    /\ pc[c] = "await_evaluate"
    /\ LET e == env[c]
           l == loop[c]
           a == PushSample(acc[Frame(c)], SampleX(e, l), SampleY(e, l), pending[c])
           next == IF Leq(Num(l.j + 1), e.res)
                   THEN [i |-> l.i, j |-> l.j + 1]
                   ELSE [i |-> l.i + 1, j |-> 0]
       IN  IF Leq(Num(next.i), e.res)
           THEN /\ loop' = [loop EXCEPT ![c] = next]
                /\ acc' = [acc EXCEPT ![Frame(c)] = a]
                /\ pending' = [pending EXCEPT ![c] =
                       Evaluate3DFunction(args[c].equation, SampleX(e, next),
                                          SampleY(e, next), args[c].parameters)]
                /\ UNCHANGED <<pc, ret>>
           ELSE LET done == [a EXCEPT !.indices = @ \o IndexPass(0, e.res)]
                IN  /\ loop' = [loop EXCEPT ![c] = next]
                    /\ acc' = [acc EXCEPT ![Frame(c)] = done]
                    /\ pending' = [pending EXCEPT ![c] = NoPending]
                    /\ ret' = [ret EXCEPT ![c] = ReturnValue(done, e)]
                    /\ pc' = [pc EXCEPT ![c] = "await_generate"]
    /\ interleaved' =
           (interleaved \/ \E o \in Calls \ {c} : pc[o] = "await_evaluate")
    /\ UNCHANGED <<body, args, env, response, requests, prev, route, frontend>>

\* the catch block answers without setting the status
SurfaceResponseNoStatus(r, a) ==
    IF r.kind = "return"
    THEN [status |-> 200, success |-> TRUE,
          data |-> [vertices |-> r.vertices, indices |-> r.indices,
                    bounds |-> r.bounds, statistics |-> r.statistics],
          metadata |-> [resolution |-> a.resolution,
                        pointCount |-> Norm(Len(r.vertices), 3)]]
    ELSE [status |-> 200, success |-> FALSE,
          error |-> "Failed to generate 3D surface data",
          details |-> r.message]

\* what the /surface handler answers once generate3DData has settled with r
SurfaceResponse(r, a) ==
    IF r.kind = "return"
    THEN [status |-> 200, success |-> TRUE,
          data |-> [vertices |-> r.vertices, indices |-> r.indices,
                    bounds |-> r.bounds, statistics |-> r.statistics],
          metadata |-> [resolution |-> a.resolution,
                        pointCount |-> Norm(Len(r.vertices), 3)]]
    ELSE [status |-> 500, success |-> FALSE,
          error |-> "Failed to generate 3D surface data",
          details |-> r.message]

\* the /surface handler resumes after `await generate3DData(...)`
Respond(c) ==
    /\ pc[c] = "await_generate"
    /\ response' = [response EXCEPT ![c] = SurfaceResponse(ret[c], args[c])]
    /\ pc' = [pc EXCEPT ![c] = "responded"]
    /\ UNCHANGED <<body, args, env, loop, acc, pending, ret, requests, prev,
                   interleaved, route, frontend>>

\* one client, one request at a time
Next ==
    \/ SurfaceRequest(1, Bodies)
    \/ RepeatRequest(1)
    \/ ResumeSample(1)
    \/ Respond(1)

Spec == Init /\ [][Next]_vars

\* two clients whose requests are in flight together
NextConcurrent ==
    \E c \in Calls :
        \/ SurfaceRequest(c, ConcurrentBodies)
        \/ ResumeSample(c)
        \/ Respond(c)

SpecConcurrent == Init /\ [][NextConcurrent]_vars

(***************************************************************************)
(* Properties of the mesh builder                                          *)
(***************************************************************************)
\* generate3DData has returned for the request slot c is handling
Returned(c) == ret[c].kind = "return"

\* the effective resolution of the returned mesh, when it is an integer
ResolutionOf(c) == ret[c].statistics.resolution[1]

IntegerResolution(c) ==
    /\ IsInteger(ret[c].statistics.resolution)
    /\ ResolutionOf(c) >= MinResolution
    /\ ResolutionOf(c) <= MaxResolution

InvalidCount(c) == ret[c].statistics.invalidPoints[1]

\* C1: for an integer effective resolution n in [10, 100] the returned mesh
\* has exactly 3*(n+1)^2 vertex scalars and exactly 6*n^2 index entries,
\* however many samples were invalid.
C1_MeshSize ==
    \A c \in Calls :
        Returned(c) /\ IntegerResolution(c) =>
            LET n == ResolutionOf(c)
            IN  /\ Len(ret[c].vertices) = 3 * (n + 1) * (n + 1)
                /\ Len(ret[c].indices) = 6 * n * n

\* a mesh of resolution 10 in which some but not all samples were invalid
C1_Witness ==
    \E c \in Calls :
        /\ Returned(c)
        /\ ResolutionOf(c) = MinResolution
        /\ InvalidCount(c) > 0
        /\ ret[c].statistics.validPoints > 0

C3_IndexPattern ==
    \A c \in Calls :
        Returned(c) /\ IntegerResolution(c) =>
            LET n == ResolutionOf(c)
            IN  /\ Len(ret[c].indices) = 6 * n * n
                /\ \A i \in 0 .. n - 1 : \A j \in 0 .. n - 1 :
                       LET q == 6 * (i * n + j)
                           a == i * (n + 1) + j
                       IN  SubSeq(ret[c].indices, q + 1, q + 6) =
                               <<Num(a), Num(a + 1), Num(a + n + 1),
                                 Num(a + 1), Num(a + n + 2), Num(a + n + 1)>>

\* a mesh of resolution 11 none of whose samples was valid
C3_Witness ==
    \E c \in Calls :
        /\ Returned(c)
        /\ ResolutionOf(c) = MinResolution + 1
        /\ Len(ret[c].indices) > 0
        /\ ret[c].statistics.validPoints = 0

\* the three scalars stored for the sample (i, j) of a grid of resolution n
VertexAt(vertices, i, j, n) ==
    SubSeq(vertices, 3 * (i * (n + 1) + j) + 1, 3 * (i * (n + 1) + j) + 3)

\* the caller supplied both intervals with two endpoints each
WellFormedDomain(d) ==
    /\ Has(d, "x") /\ Len(d.x) = 2
    /\ Has(d, "y") /\ Len(d.y) = 2

\* C4: for every caller-supplied domain (an endpoint equal to 0 included) the
\* vertex at position i*(res+1)+j has x = xMin + (xMax-xMin)*i/res and
\* y = yMin + (yMax-yMin)*j/res with xMin, xMax, yMin, yMax the supplied
\* endpoints, and bounds.x, bounds.y are the supplied intervals.
C4_GridOverSuppliedDomain ==
    \A c \in Calls :
        Returned(c) /\ IntegerResolution(c) /\ WellFormedDomain(args[c].domain) =>
            LET n == ResolutionOf(c)
                d == args[c].domain
            IN  /\ ret[c].bounds.x = d.x
                /\ ret[c].bounds.y = d.y
                /\ \A i \in 0 .. n : \A j \in 0 .. n :
                       LET v == VertexAt(ret[c].vertices, i, j, n)
                       IN  /\ v[1] = GridCoordinate(d.x[1], d.x[2], i, Num(n))
                           /\ v[2] = GridCoordinate(d.y[1], d.y[2], j, Num(n))

\* what the resolution is documented to become: raised to 10, capped at 100
ClampedResolution(resolution) ==
    IF Lt(resolution, Num(MinResolution)) THEN Num(MinResolution)
    ELSE IF Lt(Num(MaxResolution), resolution) THEN Num(MaxResolution)
    ELSE resolution

\* C5: for every integer resolution passed to generate3DData (0 and negative
\* values included) the effective resolution used for the grid and reported
\* in statistics.resolution is 10 below 10, 100 above 100, else the value.
C5_ResolutionClamped ==
    \A c \in Calls :
        /\ pc[c] = "await_evaluate" =>
               env[c].res = ClampedResolution(args[c].resolution)
        /\ Returned(c) =>
               ret[c].statistics.resolution = ClampedResolution(args[c].resolution)

\* the samples of the grid whose evaluation throws or is not finite
FailingSamples(a, e) ==
    {s \in (0 .. e.res[1]) \X (0 .. e.res[1]) :
        ~Evaluate3DFunction(a.equation,
                            GridCoordinate(e.xMin, e.xMax, s[1], e.res),
                            GridCoordinate(e.yMin, e.yMax, s[2], e.res),
                            a.parameters).ok}

ValidZ(a, e) ==
    {Evaluate3DFunction(a.equation,
                        GridCoordinate(e.xMin, e.xMax, s[1], e.res),
                        GridCoordinate(e.yMin, e.yMax, s[2], e.res),
                        a.parameters).z :
        s \in ((0 .. e.res[1]) \X (0 .. e.res[1])) \ FailingSamples(a, e)}

\* bounds.z is the least and the greatest z of the valid samples
BoundsOverValid(c) ==
    LET zs == ValidZ(args[c], env[c])
        b == ret[c].bounds.z
    IN  zs # {} =>
            /\ b[1] \in zs /\ \A z \in zs : Leq(b[1], z)
            /\ b[2] \in zs /\ \A z \in zs : Leq(z, b[2])

\* C7: bounds.z = [minZ, maxZ] is the minimum and maximum z over exactly the
\* valid samples, placeholders never enter it, and minZ <= maxZ.
C7_BoundsZ ==
    \A c \in Calls :
        Returned(c) /\ IntegerResolution(c) =>
            /\ BoundsOverValid(c)
            /\ Leq(ret[c].bounds.z[1], ret[c].bounds.z[2])

\* C8: two calls of generate3DData with identical equation, domain,
\* resolution and parameters return identical vertices and indices arrays;
\* nothing the first call left behind reaches the second.
C8_Repeatable ==
    \A c \in Calls :
        Returned(c) /\ prev[c].ret.kind = "return" /\ prev[c].args = args[c] =>
            /\ ret[c].vertices = prev[c].ret.vertices
            /\ ret[c].indices = prev[c].ret.indices

\* the second of two identical calls has returned a mesh with invalid samples
C8_Witness ==
    \E c \in Calls :
        /\ requests[c] = 2
        /\ Returned(c)
        /\ prev[c].ret.kind = "return"
        /\ prev[c].args = args[c]
        /\ InvalidCount(c) > 0
        /\ Len(ret[c].vertices) > 0

\* C9: when generate3DData fails outside the per-sample try/catch (the domain
\* has no x or no y array) it throws one error prefixed "3D data generation
\* failed:", the /surface handler answers 500 with success false and neither
\* vertices nor indices, and a mesh that is sent is never a partial one.
C9_FailureIsWhole ==
    \A c \in Calls :
        /\ pc[c] \in {"await_generate", "responded"} /\ ~Has(args[c], "none")
           /\ ~(Has(args[c].domain, "x") /\ Has(args[c].domain, "y")) =>
               /\ ret[c].kind = "throw"
               /\ ret[c].message = "3D data generation failed: "
               /\ ~Has(ret[c], "vertices") /\ ~Has(ret[c], "indices")
        /\ pc[c] = "responded" /\ ret[c].kind = "throw" =>
               /\ response[c].status = 500
               /\ response[c].success = FALSE
               /\ ~Has(response[c], "data")
        /\ Has(response[c], "data") =>
               /\ response[c].status = 200
               /\ Returned(c)
               /\ response[c].data.vertices = ret[c].vertices
               /\ response[c].data.indices = ret[c].indices
               /\ Num(Len(ret[c].vertices)) =
                      Mul(Num(3), ret[c].statistics.totalPoints)

\* a request whose domain has no x array has been answered
C9_Witness ==
    \E c \in Calls :
        /\ pc[c] = "responded"
        /\ ~Has(args[c], "none")
        /\ ~Has(args[c].domain, "x")
        /\ ret[c].kind = "throw"
        /\ response[c].status = 500

\* generate3DData run from its first line to its last with nothing else
\* running in between: the samples of row i from column j on (the second
\* conjunct of the test is always true; it has a evaluated before the next
\* sample is taken) ...
RECURSIVE SampleRowAlone(_, _, _, _, _)
SampleRowAlone(a, ar, e, i, j) ==
    IF Leq(Num(j), e.res) /\ Len(a.vertices) >= 0
    THEN SampleRowAlone(
             PushSample(a, SampleX(e, [i |-> i, j |-> j]),
                        SampleY(e, [i |-> i, j |-> j]),
                        Evaluate3DFunction(ar.equation,
                                           SampleX(e, [i |-> i, j |-> j]),
                                           SampleY(e, [i |-> i, j |-> j]),
                                           ar.parameters)),
             ar, e, i, j + 1)
    ELSE a

\* ... the rows from i on ...
RECURSIVE SampleGridAlone(_, _, _, _)
SampleGridAlone(a, ar, e, i) ==
    IF Leq(Num(i), e.res) /\ Len(a.vertices) >= 0
    THEN SampleGridAlone(SampleRowAlone(a, ar, e, i, 0), ar, e, i + 1)
    ELSE a

\* ... and the whole call
GenerateAlone(ar) ==
    IF ~Has(ar.domain, "x") \/ ~Has(ar.domain, "y") THEN Thrown
    ELSE LET e == Environment(ar)
             sampled == SampleGridAlone(EmptyAccumulators, ar, e, 0)
         IN  ReturnValue([sampled EXCEPT !.indices = @ \o IndexPass(0, e.res)], e)

\* the number of samples a call suspended at (i, j) has pushed
SamplesPushed(c) == loop[c].i * (env[c].res[1] + 1) + loop[c].j

\* call c is suspended with its own samples in its arrays and nothing else
OwnSamplesOnly(c) ==
    pc[c] = "await_evaluate" =>
        /\ Len(acc[c].vertices) = 3 * SamplesPushed(c)
        /\ acc[c].validCount <= SamplesPushed(c)
        /\ acc[c].indices = <<>>

\* C10: calls of generate3DData interleaved at their awaits in any order each
\* return the vertices, indices, bounds and validity counts they return when
\* run alone; no variable is shared: every step leaves each suspended call
\* with its own samples in its arrays and nothing else, the step that settles
\* a call settles it with what the call yields alone, and no later step of
\* another call changes that.
C10_Isolation ==
    [][\A c \in Calls :
          /\ OwnSamplesOnly(c)'
          /\ ret'[c] # ret[c] =>
                 ret'[c].kind # "none" /\ ret'[c] = GenerateAlone(args'[c])
          /\ ret[c].kind # "none" => ret'[c] = ret[c]]_vars

\* two calls with different arguments whose steps were interleaved have both
\* returned
C10_Witness ==
    \E c \in Calls : \E o \in Calls \ {c} :
        /\ Returned(c) /\ Returned(o)
        /\ interleaved
        /\ args[c] # args[o]
        /\ InvalidCount(c) > 0

(***************************************************************************)
(* The mathjs parse() call.  mathjs skips white space between tokens; the  *)
(* grammar is the one of Parse extended by function calls f(a, b) and by   *)
(* the assignment name = value, and the result is the expression tree:     *)
(*   ConstantNode [value], SymbolNode [name], ParenthesisNode [content],   *)
(*   OperatorNode [op, args], FunctionNode [name, args],                   *)
(*   AssignmentNode [name, value].                                         *)
(* Implicit multiplication is left out: no input puts two operands side by *)
(* side.                                                                   *)
(***************************************************************************)
Space == [t |-> "space", s |-> " ", v |-> Zero]

IsSpace(tok) == tok.t = "space"

\* a token made of word characters only (\w+): an identifier or a number
IsWord(tok) == tok.t = "sym" \/ tok.t = "num"

\* the tokens mathjs sees: the white space dropped
RECURSIVE SkipSpaces(_)
SkipSpaces(toks) ==
    IF toks = <<>> THEN <<>>
    ELSE (IF IsSpace(Head(toks)) THEN <<>> ELSE <<Head(toks)>>)
         \o SkipSpaces(Tail(toks))

FailNode(p) == [ok |-> FALSE, node |-> [type |-> "none"], p |-> p]
OkNode(n, p) == [ok |-> TRUE, node |-> n, p |-> p]

OperatorNode(op, children) ==
    [type |-> "OperatorNode", op |-> op, args |-> children]

\* rule names the grammar rule and p the position of the next token; the
\* "...Rest" rules continue a left-associative chain whose tree so far is in
\* sofar, and "args" continues an argument list whose trees so far are in sofar
RECURSIVE ParseNode(_, _, _, _)
ParseNode(toks, rule, p, sofar) ==
    CASE rule = "assignment" ->
            LET l == ParseNode(toks, "addSubtract", p, sofar)
            IN  IF l.ok /\ IsOp(toks, l.p, "=")
                THEN IF l.node.type = "SymbolNode"
                     THEN LET r == ParseNode(toks, "assignment", l.p + 1, sofar)
                          IN  IF r.ok
                              THEN OkNode([type |-> "AssignmentNode",
                                           name |-> l.node.name,
                                           value |-> r.node], r.p)
                              ELSE r
                     ELSE FailNode(l.p)
                ELSE l
      [] rule = "addSubtract" ->
            ParseNode(toks, "addSubtractRest", p,
                      ParseNode(toks, "multiplyDivide", p, sofar))
      [] rule = "addSubtractRest" ->
            IF ~sofar.ok THEN sofar
            ELSE IF IsOp(toks, sofar.p, "+") \/ IsOp(toks, sofar.p, "-")
                 THEN LET r == ParseNode(toks, "multiplyDivide", sofar.p + 1, sofar)
                      IN  IF r.ok
                          THEN ParseNode(toks, "addSubtractRest", r.p,
                                   OkNode(OperatorNode(toks[sofar.p].s,
                                                       <<sofar.node, r.node>>), r.p))
                          ELSE r
            ELSE sofar
      [] rule = "multiplyDivide" ->
            ParseNode(toks, "multiplyDivideRest", p,
                      ParseNode(toks, "unary", p, sofar))
      [] rule = "multiplyDivideRest" ->
            IF ~sofar.ok THEN sofar
            ELSE IF IsOp(toks, sofar.p, "*") \/ IsOp(toks, sofar.p, "/")
                 THEN LET r == ParseNode(toks, "unary", sofar.p + 1, sofar)
                      IN  IF r.ok
                          THEN ParseNode(toks, "multiplyDivideRest", r.p,
                                   OkNode(OperatorNode(toks[sofar.p].s,
                                                       <<sofar.node, r.node>>), r.p))
                          ELSE r
            ELSE sofar
      [] rule = "unary" ->
            IF IsOp(toks, p, "-")
            THEN LET r == ParseNode(toks, "unary", p + 1, sofar)
                 IN  IF r.ok THEN OkNode(OperatorNode("unaryMinus", <<r.node>>), r.p)
                     ELSE r
            ELSE ParseNode(toks, "pow", p, sofar)
      [] rule = "pow" ->
            LET b == ParseNode(toks, "primary", p, sofar)
            IN  IF b.ok /\ IsOp(toks, b.p, "^")
                THEN LET e == ParseNode(toks, "unary", b.p + 1, sofar)
                     IN  IF e.ok
                         THEN OkNode(OperatorNode("^", <<b.node, e.node>>), e.p)
                         ELSE e
                ELSE b
      [] rule = "primary" ->
            IF p > Len(toks) THEN FailNode(p)
            ELSE IF toks[p].t = "num"
                 THEN OkNode([type |-> "ConstantNode", value |-> toks[p].v], p + 1)
            ELSE IF toks[p].t = "sym"
                 THEN IF IsOp(toks, p + 1, "(")
                      THEN LET a == ParseNode(toks, "args", p + 2, OkNode(<<>>, p + 2))
                           IN  IF a.ok
                               THEN OkNode([type |-> "FunctionNode",
                                            name |-> toks[p].s,
                                            args |-> a.node], a.p)
                               ELSE a
                      ELSE OkNode([type |-> "SymbolNode", name |-> toks[p].s], p + 1)
            ELSE IF IsOp(toks, p, "(")
                 THEN LET r == ParseNode(toks, "assignment", p + 1, sofar)
                      IN  IF r.ok /\ IsOp(toks, r.p, ")")
                          THEN OkNode([type |-> "ParenthesisNode",
                                       content |-> r.node], r.p + 1)
                          ELSE FailNode(r.p)
            ELSE FailNode(p)
      [] rule = "args" ->
            IF sofar.node = <<>> /\ IsOp(toks, p, ")") THEN OkNode(<<>>, p + 1)
            ELSE LET a == ParseNode(toks, "assignment", p, sofar)
                 IN  IF ~a.ok THEN a
                     ELSE IF IsOp(toks, a.p, ",")
                          THEN ParseNode(toks, "args", a.p + 1,
                                         OkNode(Append(sofar.node, a.node), a.p + 1))
                     ELSE IF IsOp(toks, a.p, ")")
                          THEN OkNode(Append(sofar.node, a.node), a.p + 1)
                     ELSE FailNode(a.p)

\* mathjs parse(str): [ok |-> FALSE] when it throws a SyntaxError
MathParse(str) ==
    LET toks == SkipSpaces(str)
        r == ParseNode(toks, "assignment", 1, FailNode(1))
    IN  IF toks = <<>>
        THEN \* an empty expression is the constant undefined
             [ok |-> TRUE, node |-> [type |-> "ConstantNode", value |-> NaN]]
        ELSE IF r.ok /\ r.p = Len(toks) + 1 THEN [ok |-> TRUE, node |-> r.node]
        ELSE [ok |-> FALSE, node |-> [type |-> "none"]]

(***************************************************************************)
(* backend/utils/mathSolver.js (the module the file ends with, from its    *)
(* second require of mathjs on: the definitions the routes are served by)  *)
(*                                                                         *)
(* Patterns that are not anchored by \b, and String.includes, are applied  *)
(* to whole tokens: no identifier of the inputs contains another one that  *)
(* a pattern looks for.                                                    *)
(***************************************************************************)
\* String.prototype.toLowerCase on the identifiers the inputs are spelled
\* with
LowerCaseWord(s) ==
    CASE s = "DERIVATIVE" -> "derivative"
      [] s = "Diff" -> "diff"
      [] s = "Integral" -> "integral"
      [] s = "SOLVE" -> "solve"
      [] s = "Limit" -> "limit"
      [] s = "X" -> "x"
      [] OTHER -> s

ToLowerCase(str) ==
    [k \in DOMAIN str |->
        IF str[k].t = "sym" THEN [str[k] EXCEPT !.s = LowerCaseWord(@)] ELSE str[k]]

\* String.prototype.trim
RECURSIVE TrimStart(_)
TrimStart(str) ==
    IF str # <<>> /\ IsSpace(Head(str)) THEN TrimStart(Tail(str)) ELSE str

RECURSIVE TrimEnd(_)
TrimEnd(str) ==
    IF str # <<>> /\ IsSpace(str[Len(str)])
    THEN TrimEnd(SubSeq(str, 1, Len(str) - 1))
    ELSE str

Trim(str) == TrimEnd(TrimStart(str))

\* the token at k spells the identifier w, compared as a pattern with the i
\* flag compares
WordAt(str, k, w) ==
    k \in DOMAIN str /\ str[k].t = "sym" /\ LowerCaseWord(str[k].s) = w

\* the position of the first token at or after k that is not white space
\* (Len(str) + 1 when there is none): where \s* leaves off
RECURSIVE AfterSpaces(_, _)
AfterSpaces(str, k) ==
    IF k \in DOMAIN str /\ IsSpace(str[k]) THEN AfterSpaces(str, k + 1) ELSE k

\* /\b(derivative|diff|d\/d|differentiate)\b/i.test(eq)
isDerivativeOperation(eq) ==
    \E k \in DOMAIN eq :
        \/ WordAt(eq, k, "derivative")
        \/ WordAt(eq, k, "diff")
        \/ WordAt(eq, k, "differentiate")
        \/ WordAt(eq, k, "d") /\ IsOp(eq, k + 1, "/") /\ WordAt(eq, k + 2, "d")

\* /\b(integral|integrate|∫)\b/i.test(eq): the integral sign is not a word
\* character, so it matches only with a word character on either side
isIntegralOperation(eq) ==
    \E k \in DOMAIN eq :
        \/ WordAt(eq, k, "integral")
        \/ WordAt(eq, k, "integrate")
        \/ /\ IsOp(eq, k, "integralSign")
           /\ k - 1 \in DOMAIN eq /\ IsWord(eq[k - 1])
           /\ k + 1 \in DOMAIN eq /\ IsWord(eq[k + 1])

\* /\b(solve)\s*\(/i.test(eq)
isSolveOperation(eq) ==
    \E k \in DOMAIN eq :
        WordAt(eq, k, "solve") /\ IsOp(eq, AfterSpaces(eq, k + 1), "(")

\* /\b(limit|lim)\b/i.test(eq)
isLimitOperation(eq) ==
    \E k \in DOMAIN eq : WordAt(eq, k, "limit") \/ WordAt(eq, k, "lim")

\* the smallest element of a non-empty set of positions
Least(S) == CHOOSE k \in S : \A o \in S : k <= o

\* the largest element of a non-empty set of positions
Greatest(S) == CHOOSE k \in S : \A o \in S : k >= o

NoMatch == [ok |-> FALSE, m1 |-> <<>>, m2 |-> <<>>, m3 |-> <<>>]

\* str continues at q with \s*,\s*(\w+)\s*\)
CommaWordParen(str, q) ==
    LET c == AfterSpaces(str, q)
        w == AfterSpaces(str, c + 1)
    IN  /\ IsOp(str, c, ",")
        /\ w \in DOMAIN str /\ IsWord(str[w])
        /\ IsOp(str, AfterSpaces(str, w + 1), ")")

\* where the match of name\s*\(\s*(.+?) that starts at k puts the start of
\* its group
GroupStart(str, k) == AfterSpaces(str, AfterSpaces(str, k + 1) + 1)

\* str.match(/name\s*\(\s*(.+?)\s*,\s*(\w+)\s*\)/i): the leftmost start, and
\* from it the shortest first group
CallMatch(str, name) ==
    LET Ends(k) == {b \in GroupStart(str, k) .. Len(str) : CommaWordParen(str, b + 1)}
        Starts == {k \in DOMAIN str :
                      /\ WordAt(str, k, name)
                      /\ IsOp(str, AfterSpaces(str, k + 1), "(")
                      /\ Ends(k) # {}}
    IN  IF Starts = {} THEN NoMatch
        ELSE LET k == Least(Starts)
                 b == Least(Ends(k))
                 w == AfterSpaces(str, AfterSpaces(str, b + 1) + 1)
             IN  [ok |-> TRUE, m1 |-> SubSeq(str, GroupStart(str, k), b),
                  m2 |-> <<str[w]>>, m3 |-> <<>>]

\* what follows the letter d in an identifier that starts with it: the
\* (\w+) of d(\w+); "" when the identifier is no such word
AfterD(s) ==
    CASE s = "dx" -> "x"
      [] s = "dy" -> "y"
      [] OTHER -> ""

\* the token at k is an identifier d(\w+)
IsDWord(str, k) ==
    k \in DOMAIN str /\ str[k].t = "sym" /\ AfterD(LowerCaseWord(str[k].s)) # ""

\* str.match(/d\s*\/\s*d(\w+)\s*\(\s*(.+?)\s*\)/i)
DOverDMatch(str) ==
    LET Slash(k) == AfterSpaces(str, k + 1)
        Var(k) == AfterSpaces(str, Slash(k) + 1)
        Paren(k) == AfterSpaces(str, Var(k) + 1)
        From(k) == AfterSpaces(str, Paren(k) + 1)
        Ends(k) == {b \in From(k) .. Len(str) :
                       IsOp(str, AfterSpaces(str, b + 1), ")")}
        Starts == {k \in DOMAIN str :
                      /\ WordAt(str, k, "d") /\ IsOp(str, Slash(k), "/")
                      /\ IsDWord(str, Var(k)) /\ IsOp(str, Paren(k), "(")
                      /\ Ends(k) # {}}
    IN  IF Starts = {} THEN NoMatch
        ELSE LET k == Least(Starts)
             IN  [ok |-> TRUE, m1 |-> <<Sym(AfterD(str[Var(k)].s))>>,
                  m2 |-> SubSeq(str, From(k), Least(Ends(k))), m3 |-> <<>>]

\* str.match(/d\s*\(\s*(.+?)\s*\)\s*\/\s*d(\w+)/i)
DParenOverDMatch(str) ==
    LET From(k) == GroupStart(str, k)
        Close(b) == AfterSpaces(str, b + 1)
        Slash(b) == AfterSpaces(str, Close(b) + 1)
        Var(b) == AfterSpaces(str, Slash(b) + 1)
        Ends(k) == {b \in From(k) .. Len(str) :
                       /\ IsOp(str, Close(b), ")") /\ IsOp(str, Slash(b), "/")
                       /\ IsDWord(str, Var(b))}
        Starts == {k \in DOMAIN str :
                      /\ WordAt(str, k, "d")
                      /\ IsOp(str, AfterSpaces(str, k + 1), "(")
                      /\ Ends(k) # {}}
    IN  IF Starts = {} THEN NoMatch
        ELSE LET k == Least(Starts)
                 b == Least(Ends(k))
             IN  [ok |-> TRUE, m1 |-> SubSeq(str, From(k), b),
                  m2 |-> <<Sym(AfterD(str[Var(b)].s))>>, m3 |-> <<>>]

\* what a parse...Input helper yields: its operands, or the Error it throws
Operands(func, variable, approach) ==
    [ok |-> TRUE, func |-> func, variable |-> variable, approach |-> approach]

NoOperands(message) ==
    [ok |-> FALSE, func |-> <<>>, variable |-> <<>>, approach |-> <<>>,
     message |-> message]

\* parseDerivativeInput.  The source text of none of the four patterns
\* contains "d/d", so every match is read as func = match[1],
\* variable = match[2].
parseDerivativeInput(equation) ==
    LET m == IF CallMatch(equation, "derivative").ok
             THEN CallMatch(equation, "derivative")
             ELSE IF CallMatch(equation, "diff").ok
             THEN CallMatch(equation, "diff")
             ELSE IF DOverDMatch(equation).ok THEN DOverDMatch(equation)
             ELSE DParenOverDMatch(equation)
    IN  IF m.ok THEN Operands(m.m1, m.m2, <<>>)
        ELSE NoOperands(
                 "Invalid derivative syntax. Use: derivative(expression, variable)")

\* str.match(/∫\s*(.+?)\s*d(\w+)/i)
IntegralSignMatch(str) ==
    LET From(k) == AfterSpaces(str, k + 1)
        Ends(k) == {b \in From(k) .. Len(str) :
                       IsDWord(str, AfterSpaces(str, b + 1))}
        Starts == {k \in DOMAIN str : IsOp(str, k, "integralSign") /\ Ends(k) # {}}
    IN  IF Starts = {} THEN NoMatch
        ELSE LET k == Least(Starts)
                 b == Least(Ends(k))
             IN  [ok |-> TRUE, m1 |-> SubSeq(str, From(k), b),
                  m2 |-> <<Sym(AfterD(str[AfterSpaces(str, b + 1)].s))>>,
                  m3 |-> <<>>]

\* parseIntegralInput
parseIntegralInput(equation) ==
    LET m == IF CallMatch(equation, "integral").ok
             THEN CallMatch(equation, "integral")
             ELSE IF CallMatch(equation, "integrate").ok
             THEN CallMatch(equation, "integrate")
             ELSE IntegralSignMatch(equation)
    IN  IF m.ok THEN Operands(Trim(m.m1), Trim(m.m2), <<>>)
        ELSE NoOperands(
                 "Invalid integral syntax. Use: integral(expression, variable)")

\* str.match(/solve\s*\(\s*(.+?)\s*=\s*(.+?)\s*,\s*(\w+)\s*\)/i)
SolveEquationMatch(str) ==
    LET Eq(b) == AfterSpaces(str, b + 1)
        Right(b) == AfterSpaces(str, Eq(b) + 1)
        RightEnds(b) == {e \in Right(b) .. Len(str) : CommaWordParen(str, e + 1)}
        Ends(k) == {b \in GroupStart(str, k) .. Len(str) :
                       IsOp(str, Eq(b), "=") /\ RightEnds(b) # {}}
        Starts == {k \in DOMAIN str :
                      /\ WordAt(str, k, "solve")
                      /\ IsOp(str, AfterSpaces(str, k + 1), "(")
                      /\ Ends(k) # {}}
    IN  IF Starts = {} THEN NoMatch
        ELSE LET k == Least(Starts)
                 b == Least(Ends(k))
                 e == Least(RightEnds(b))
                 w == AfterSpaces(str, AfterSpaces(str, e + 1) + 1)
             IN  [ok |-> TRUE, m1 |-> SubSeq(str, GroupStart(str, k), b),
                  m2 |-> SubSeq(str, Right(b), e), m3 |-> <<str[w]>>]

\* parseSolveInput
parseSolveInput(equation) ==
    LET solveMatch == CallMatch(equation, "solve")
        equationMatch == SolveEquationMatch(equation)
    IN  IF solveMatch.ok
        THEN Operands(Trim(solveMatch.m1), Trim(solveMatch.m2), <<>>)
        ELSE IF equationMatch.ok
        THEN IF Trim(equationMatch.m2) = <<Lit(Zero)>>
             THEN Operands(Trim(equationMatch.m1), Trim(equationMatch.m3), <<>>)
             ELSE Operands(Trim(equationMatch.m1) \o <<Space, Op("-"), Space, Op("(")>>
                               \o Trim(equationMatch.m2) \o <<Op(")")>>,
                           Trim(equationMatch.m3), <<>>)
        ELSE NoOperands("Invalid solve syntax. Use: solve(expression, variable) or solve(equation = value, variable)")

\* str.match(/limit\s*\(\s*(\w+)\s*,\s*([^,]+)\s*,\s*(.+)\s*\)/i): the second
\* group runs to the next comma, the third to the last closing parenthesis
LimitCallMatch(str) ==
    LET Var(k) == GroupStart(str, k)
        Comma1(k) == AfterSpaces(str, Var(k) + 1)
        From2(k) == AfterSpaces(str, Comma1(k) + 1)
        Commas(k) == {c \in From2(k) + 1 .. Len(str) : IsOp(str, c, ",")}
        From3(k) == AfterSpaces(str, Least(Commas(k)) + 1)
        Closes(k) == {c \in From3(k) + 1 .. Len(str) : IsOp(str, c, ")")}
        Starts == {k \in DOMAIN str :
                      /\ WordAt(str, k, "limit")
                      /\ IsOp(str, AfterSpaces(str, k + 1), "(")
                      /\ Var(k) \in DOMAIN str /\ IsWord(str[Var(k)])
                      /\ IsOp(str, Comma1(k), ",")
                      /\ From2(k) \in DOMAIN str /\ ~IsOp(str, From2(k), ",")
                      /\ Commas(k) # {}
                      /\ Closes(k) # {}}
    IN  IF Starts = {} THEN NoMatch
        ELSE LET k == Least(Starts)
             IN  [ok |-> TRUE, m1 |-> <<str[Var(k)]>>,
                  m2 |-> SubSeq(str, From2(k), Least(Commas(k)) - 1),
                  m3 |-> SubSeq(str, From3(k), Greatest(Closes(k)) - 1)]

\* str.match(/lim\s*\(\s*(\w+)\s*(?:→|->)\s*([^)]+)\s*\)\s*(.+)/i): the
\* arrow is one token
LimArrowMatch(str) ==
    LET Var(k) == GroupStart(str, k)
        Arrow(k) == AfterSpaces(str, Var(k) + 1)
        From2(k) == AfterSpaces(str, Arrow(k) + 1)
        Closes(k) == {c \in From2(k) + 1 .. Len(str) : IsOp(str, c, ")")}
        From3(k) == AfterSpaces(str, Least(Closes(k)) + 1)
        Starts == {k \in DOMAIN str :
                      /\ WordAt(str, k, "lim")
                      /\ IsOp(str, AfterSpaces(str, k + 1), "(")
                      /\ Var(k) \in DOMAIN str /\ IsWord(str[Var(k)])
                      /\ IsOp(str, Arrow(k), "->")
                      /\ From2(k) \in DOMAIN str /\ ~IsOp(str, From2(k), ")")
                      /\ Closes(k) # {}
                      /\ From3(k) \in DOMAIN str}
    IN  IF Starts = {} THEN NoMatch
        ELSE LET k == Least(Starts)
             IN  [ok |-> TRUE, m1 |-> <<str[Var(k)]>>,
                  m2 |-> SubSeq(str, From2(k), Least(Closes(k)) - 1),
                  m3 |-> SubSeq(str, From3(k), Len(str))]

\* parseLimitInput
parseLimitInput(equation) ==
    LET m == IF LimitCallMatch(equation).ok THEN LimitCallMatch(equation)
             ELSE LimArrowMatch(equation)
    IN  IF m.ok THEN Operands(Trim(m.m3), Trim(m.m1), Trim(m.m2))
        ELSE NoOperands(
                 "Invalid limit syntax. Use: limit(variable, approach, function)")

(***************************************************************************)
(* The mathjs calls of mathSolver.js.  Each yields [ok |-> FALSE] when it  *)
(* throws.  The text mathjs prints for a tree is not modelled: an answer   *)
(* is represented by the call that produced it.                            *)
(***************************************************************************)
Threw == [ok |-> FALSE, v |-> NaN]

\* the value of a tree in the empty scope: a symbol is undefined and a call
\* names no function of the library (the inputs use neither the constants
\* nor the functions of mathjs)
RECURSIVE EvalNode(_)
EvalNode(node) ==
    CASE node.type = "ConstantNode" -> [ok |-> TRUE, v |-> node.value]
      [] node.type = "ParenthesisNode" -> EvalNode(node.content)
      [] node.type = "AssignmentNode" -> EvalNode(node.value)
      [] node.type = "OperatorNode" ->
            LET l == EvalNode(node.args[1])
                r == EvalNode(node.args[Len(node.args)])
            IN  IF ~l.ok \/ ~r.ok THEN Threw
                ELSE [ok |-> TRUE,
                      v |-> CASE node.op = "+" -> Add(l.v, r.v)
                              [] node.op = "-" -> Sub(l.v, r.v)
                              [] node.op = "*" -> Mul(l.v, r.v)
                              [] node.op = "/" -> Div(l.v, r.v)
                              [] node.op = "^" -> Pow(l.v, r.v)
                              [] node.op = "unaryMinus" -> Neg(l.v)]
      [] OTHER -> Threw

\* evaluate(str) for a string with white space, calls or an assignment in it
MathEvaluate(str) ==
    LET parsed == MathParse(str)
    IN  IF parsed.ok THEN EvalNode(parsed.node) ELSE Threw

\* the functions derivative() has a rule for
DifferentiableFunctions == {"sin", "cos", "tan", "exp", "log", "sqrt"}

\* the tree holds something derivative() has no rule for
RECURSIVE NotDifferentiable(_)
NotDifferentiable(node) ==
    CASE node.type = "ConstantNode" -> FALSE
      [] node.type = "SymbolNode" -> FALSE
      [] node.type = "ParenthesisNode" -> NotDifferentiable(node.content)
      [] node.type = "OperatorNode" ->
            \E k \in DOMAIN node.args : NotDifferentiable(node.args[k])
      [] node.type = "FunctionNode" ->
            \/ node.name \notin DifferentiableFunctions
            \/ \E k \in DOMAIN node.args : NotDifferentiable(node.args[k])
      [] OTHER -> TRUE

\* derivative(parsed, variable) throws when variable is no identifier or the
\* tree holds what it has no rule for
DerivativeThrows(node, variable) ==
    \/ Len(variable) # 1 \/ variable[1].t # "sym"
    \/ NotDifferentiable(node)

\* what solve(expr, variable) does.  mathjs exports no function of that name,
\* so the call throws a TypeError; the other outcomes are those of a build in
\* which the name is bound to a solver.
SolveOutcomes == {"throws", "array", "value"}

(***************************************************************************)
(* Results.  Of a step the number and the description are kept.            *)
(***************************************************************************)
createStep(step, description) == [step |-> step, description |-> description]

\* a final answer that is a fixed text
Text(s) == [call |-> "text", text |-> s]

createSuccessResult(steps, finalAnswer, type) ==
    [steps |-> steps, finalAnswer |-> finalAnswer, type |-> type, success |-> TRUE]

createErrorResult(type, error) ==
    [steps |-> <<>>, finalAnswer |-> Text(""), type |-> type, success |-> FALSE,
     error |-> error]

\* what a handler of solveMathExpression hands back: its result, and as
\* history which of its steps failed (operand extraction or a mathjs call)
Handled(result, failed) == [result |-> result, failed |-> failed]

\* some token of str is the identifier w
Includes(str, w) == \E k \in DOMAIN str : str[k].t = "sym" /\ str[k].s = w

\* addDerivativeRules: the steps it pushes
addDerivativeRules(steps, func) ==
    LET s1 == IF \E k \in DOMAIN func : IsOp(func, k, "^")
              THEN Append(steps, createStep(Len(steps) + 1, "Power rule"))
              ELSE steps
        s2 == IF Includes(func, "sin") \/ Includes(func, "cos") \/ Includes(func, "tan")
              THEN Append(s1, createStep(Len(s1) + 1, "Trigonometric rules"))
              ELSE s1
        s3 == IF Includes(func, "ln") \/ Includes(func, "log")
              THEN Append(s2, createStep(Len(s2) + 1, "Logarithmic rule"))
              ELSE s2
    IN  IF \/ Includes(func, "exp")
           \/ \E k \in DOMAIN func :
                  func[k].t = "sym" /\ func[k].s = "e" /\ IsOp(func, k + 1, "^")
        THEN Append(s3, createStep(Len(s3) + 1, "Exponential rule"))
        ELSE s3

\* solveDerivative
solveDerivative(equation) ==
    LET operands == parseDerivativeInput(equation)
        parsed == MathParse(operands.func)
        steps == addDerivativeRules(<<createStep(1, "Original function")>>,
                                    operands.func)
    IN  IF ~operands.ok
        THEN Handled(createErrorResult("derivative", operands.message), {"extraction"})
        ELSE IF ~parsed.ok
        THEN Handled(createErrorResult("derivative", "SyntaxError"), {"parse"})
        ELSE IF DerivativeThrows(parsed.node, operands.variable)
        THEN Handled(createErrorResult("derivative", "derivative failed"),
                     {"derivative"})
        ELSE Handled(
                 createSuccessResult(
                     Append(steps, createStep(Len(steps) + 1, "Apply differentiation")),
                     [call |-> "derivative", func |-> operands.func,
                      variable |-> operands.variable],
                     "derivative"),
                 {})

\* the token at k of str is the token variable consists of
VariableAt(str, k, variable) ==
    k \in DOMAIN str /\ Len(variable) = 1 /\ str[k] = variable[1]

\* solveIntegralByPattern: the step it pushes
solveIntegralByPattern(func, variable) ==
    IF \E k \in DOMAIN func :
           /\ VariableAt(func, k, variable) /\ IsOp(func, k + 1, "^")
           /\ k + 2 \in DOMAIN func /\ func[k + 2].t = "num"
    THEN "Power rule"
    ELSE IF func = variable THEN "Linear function"
    ELSE IF ~\E k \in DOMAIN func : VariableAt(func, k, variable) THEN "Constant rule"
    ELSE IF Includes(func, "sin") THEN "Sine integration"
    ELSE IF Includes(func, "cos") THEN "Cosine integration"
    ELSE "Complex integration"

\* solveIntegral
solveIntegral(equation) ==
    LET operands == parseIntegralInput(equation)
    IN  IF ~operands.ok
        THEN Handled(createErrorResult("integral", operands.message), {"extraction"})
        ELSE Handled(
                 createSuccessResult(
                     <<createStep(1, "Setup integral"),
                       createStep(2, solveIntegralByPattern(operands.func,
                                                            operands.variable))>>,
                     [call |-> "integral", func |-> operands.func,
                      variable |-> operands.variable],
                     "integral"),
                 {})

\* solveEquationManually, entered after solve(expr, variable) has thrown: the
\* same call throws again wherever it is tried
solveEquationManually(expr, variable, steps) ==
    LET quadratic == \E k \in DOMAIN expr :
                         /\ IsOp(expr, k, "^")
                         /\ k + 1 \in DOMAIN expr /\ expr[k + 1] = Lit(Num(2))
        s2 == IF quadratic THEN Append(steps, createStep(2, "Quadratic equation"))
              ELSE steps
    IN  createSuccessResult(Append(s2, createStep(2, "Complex equation")),
                            Text("Solution requires advanced techniques"), "equation")

\* solveMathEquation; outcome is what solve(expr, variable) does
solveMathEquation(equation, outcome) ==
    LET operands == parseSolveInput(equation)
        steps == <<createStep(1, "Original equation")>>
        answer == [call |-> "solve", func |-> operands.func,
                   variable |-> operands.variable]
    IN  IF ~operands.ok
        THEN Handled(createErrorResult("equation", operands.message), {"extraction"})
        ELSE CASE outcome = "array" ->
                    Handled(createSuccessResult(
                                steps \o <<createStep(2, "Apply solving methods"),
                                           createStep(3, "Solutions found")>>,
                                answer, "equation"), {})
               [] outcome = "value" ->
                    Handled(createSuccessResult(
                                Append(steps, createStep(2, "Solution")),
                                answer, "equation"), {})
               [] outcome = "throws" ->
                    Handled(solveEquationManually(operands.func, operands.variable,
                                                  steps), {"solve"})

\* str.replace(new RegExp(variable, "g"), replacement)
RECURSIVE ReplaceVariable(_, _, _)
ReplaceVariable(str, variable, replacement) ==
    IF str = <<>> THEN <<>>
    ELSE (IF VariableAt(str, 1, variable) THEN replacement ELSE <<Head(str)>>)
         \o ReplaceVariable(Tail(str), variable, replacement)

\* solveLimit
solveLimit(equation) ==
    LET operands == parseLimitInput(equation)
        steps == <<createStep(1, "Setup limit")>>
        substituted == ReplaceVariable(operands.func, operands.variable,
                           <<Op("(")>> \o operands.approach \o <<Op(")")>>)
        result == MathEvaluate(substituted)
    IN  IF ~operands.ok
        THEN Handled(createErrorResult("limit", operands.message), {"extraction"})
        ELSE IF result.ok /\ IsFinite(result.v)
        THEN Handled(createSuccessResult(
                         steps \o <<createStep(2, "Direct substitution"),
                                    createStep(3, "Result")>>,
                         [call |-> "number", value |-> result.v], "limit"), {})
        ELSE IF result.ok
        THEN Handled(createSuccessResult(
                         steps, Text("Limit requires advanced techniques"), "limit"), {})
        ELSE Handled(createSuccessResult(
                         Append(steps, createStep(2, "Indeterminate form")),
                         Text("Limit requires advanced techniques"), "limit"),
                     {"evaluate"})

\* simplifyExpression (toFixed(10) of a fraction is not modelled: the answer
\* is the value)
simplifyExpression(equation) ==
    LET parsed == MathParse(equation)
        steps == IF parsed.ok
                 THEN <<createStep(1, "Original expression"), createStep(2, "Simplify")>>
                 ELSE <<createStep(1, "Original expression")>>
        evaluated == MathEvaluate(equation)
        failed == (IF parsed.ok THEN {} ELSE {"parse"})
                  \cup (IF evaluated.ok THEN {} ELSE {"evaluate"})
    IN  IF evaluated.ok /\ IsFinite(evaluated.v)
        THEN Handled(createSuccessResult(
                         Append(steps, createStep(Len(steps) + 1, "Numerical evaluation")),
                         [call |-> "number", value |-> evaluated.v], "arithmetic"),
                     failed)
        ELSE Handled(createSuccessResult(
                         steps, [call |-> "simplify", func |-> equation],
                         "simplification"),
                     failed)

\* the operation solveMathExpression tests for before the one it should
SolveBeforeDerivative(cleanEquation) ==
    IF isSolveOperation(cleanEquation) THEN "solve"
    ELSE IF isDerivativeOperation(cleanEquation) THEN "derivative"
    ELSE IF isIntegralOperation(cleanEquation) THEN "integral"
    ELSE IF isLimitOperation(cleanEquation) THEN "limit"
    ELSE "simplify"

\* the chain of tests of solveMathExpression: the operation it dispatches to
Dispatch(cleanEquation) ==
    IF isDerivativeOperation(cleanEquation) THEN "derivative"
    ELSE IF isIntegralOperation(cleanEquation) THEN "integral"
    ELSE IF isSolveOperation(cleanEquation) THEN "solve"
    ELSE IF isLimitOperation(cleanEquation) THEN "limit"
    ELSE "simplify"

\* solveMathExpression; handler is kept as history
solveMathExpression(equation, outcome) ==
    LET cleanEquation == Trim(equation)
        handler == Dispatch(cleanEquation)
        handled == CASE handler = "derivative" -> solveDerivative(cleanEquation)
                     [] handler = "integral" -> solveIntegral(cleanEquation)
                     [] handler = "solve" -> solveMathEquation(cleanEquation, outcome)
                     [] handler = "limit" -> solveLimit(cleanEquation)
                     [] handler = "simplify" -> simplifyExpression(cleanEquation)
    IN  [kind |-> "solved", handler |-> handler, result |-> handled.result,
         failed |-> handled.failed]

\* validateMathExpression
validateMathExpression(expression) ==
    IF expression = <<>> \/ Trim(expression) = <<>>
    THEN [valid |-> FALSE, error |-> "Expression cannot be empty"]
    ELSE IF MathParse(expression).ok THEN [valid |-> TRUE]
    ELSE [valid |-> FALSE, error |-> "SyntaxError"]

\* a classification that tests for solve first
SolveFirstType(expression) ==
    LET clean == ToLowerCase(expression)
    IN  IF isSolveOperation(clean) THEN "equation"
        ELSE IF isDerivativeOperation(clean) THEN "derivative"
        ELSE IF isIntegralOperation(clean) THEN "integral"
        ELSE IF isLimitOperation(clean) THEN "limit"
        ELSE "simplification"

\* getExpressionType
getExpressionType(expression) ==
    LET clean == ToLowerCase(expression)
    IN  IF isDerivativeOperation(clean) THEN "derivative"
        ELSE IF isIntegralOperation(clean) THEN "integral"
        ELSE IF isSolveOperation(clean) THEN "equation"
        ELSE IF isLimitOperation(clean) THEN "limit"
        ELSE "simplification"


(***************************************************************************)
(* Expressions a client posts to the math router                           *)
(***************************************************************************)
\* name(first, second)
CallOf(name, first, second) ==
    <<Sym(name), Op("(")>> \o first \o <<Op(","), Space>> \o second \o <<Op(")")>>

\* x^2
XSquared == <<Sym("x"), Op("^"), Lit(Num(2))>>

\* 2 + 3 * 4
ExprArithmetic ==
    <<Lit(Num(2)), Space, Op("+"), Space, Lit(Num(3)), Space, Op("*"), Space,
      Lit(Num(4))>>
\* x^2 + 1
ExprPolynomial == XSquared \o <<Space, Op("+"), Space, Lit(Num(1))>>
\* 2 +
ExprDangling == <<Lit(Num(2)), Space, Op("+")>>
\* two blanks
ExprBlank == <<Space, Space>>
\* derivative(x^2, x)
ExprDerivative == CallOf("derivative", XSquared, <<Sym("x")>>)
\* DERIVATIVE(x^2, X)
ExprDerivativeUpper == CallOf("DERIVATIVE", XSquared, <<Sym("X")>>)
\* derivative(x^2)
ExprDerivativeNoVariable == <<Sym("derivative"), Op("(")>> \o XSquared \o <<Op(")")>>
\* derivative(foo(x), x)
ExprDerivativeUnknown ==
    CallOf("derivative", <<Sym("foo"), Op("("), Sym("x"), Op(")")>>, <<Sym("x")>>)
\* integral(x^2, x)
ExprIntegral == CallOf("integral", XSquared, <<Sym("x")>>)
\* Integral(x)
ExprIntegralNoVariable == <<Sym("Integral"), Op("("), Sym("x"), Op(")")>>
\* solve(x^2 - 4, x)
ExprSolve ==
    CallOf("solve", XSquared \o <<Space, Op("-"), Space, Lit(Num(4))>>, <<Sym("x")>>)
\* SOLVE (x, x)
ExprSolveSpaced ==
    <<Sym("SOLVE"), Space, Op("("), Sym("x"), Op(","), Space, Sym("x"), Op(")")>>
\* solve(x^2 - 4 = 0, x)
ExprSolveEquation ==
    CallOf("solve",
           XSquared \o <<Space, Op("-"), Space, Lit(Num(4)), Space, Op("="), Space,
                         Lit(Num(0))>>,
           <<Sym("x")>>)
\* solve(derivative(x^2, x), x)
ExprSolveDerivative == CallOf("solve", ExprDerivative, <<Sym("x")>>)
\* integral(diff(x, x), x)
ExprIntegralDiff ==
    CallOf("integral", CallOf("diff", <<Sym("x")>>, <<Sym("x")>>), <<Sym("x")>>)
\* solve(integral(x, x), x)
ExprSolveIntegral ==
    CallOf("solve", CallOf("integral", <<Sym("x")>>, <<Sym("x")>>), <<Sym("x")>>)
\* limit(x, 2, x^2)
ExprLimit ==
    <<Sym("limit"), Op("("), Sym("x"), Op(","), Space, Lit(Num(2)), Op(","), Space>>
    \o XSquared \o <<Op(")")>>
\* limit(x, 0, x/x)
ExprLimitRatio ==
    <<Sym("limit"), Op("("), Sym("x"), Op(","), Space, Lit(Num(0)), Op(","), Space,
      Sym("x"), Op("/"), Sym("x"), Op(")")>>
\* limit(x, 0, y)
ExprLimitFree ==
    <<Sym("limit"), Op("("), Sym("x"), Op(","), Space, Lit(Num(0)), Op(","), Space,
      Sym("y"), Op(")")>>
\* Limit(x)
ExprLimitNoOperands == <<Sym("Limit"), Op("("), Sym("x"), Op(")")>>
\* solve(limit(x, 0, x), x)
ExprSolveLimit ==
    CallOf("solve",
           <<Sym("limit"), Op("("), Sym("x"), Op(","), Space, Lit(Num(0)), Op(","),
             Space, Sym("x"), Op(")")>>,
           <<Sym("x")>>)
\* diff * integrate
ExprDiffIntegrate == <<Sym("diff"), Space, Op("*"), Space, Sym("integrate")>>
\* solve * 2
ExprSolveWord == <<Sym("solve"), Space, Op("*"), Space, Lit(Num(2))>>
\* lim + 1
ExprLimWord == <<Sym("lim"), Space, Op("+"), Space, Lit(Num(1))>>
\* a = 2
ExprAssignment == <<Sym("a"), Space, Op("="), Space, Lit(Num(2))>>
\* diff(x^2, x), differentiate(x^2, x), integrate(x^2, x)
ExprDiff == CallOf("diff", XSquared, <<Sym("x")>>)
ExprDifferentiate == CallOf("differentiate", XSquared, <<Sym("x")>>)
ExprIntegrate == CallOf("integrate", XSquared, <<Sym("x")>>)
\* lim(x, 2, x^2)
ExprLimCall ==
    <<Sym("lim"), Op("("), Sym("x"), Op(","), Space, Lit(Num(2)), Op(","), Space>>
    \o XSquared \o <<Op(")")>>

MathExpressions ==
    {ExprArithmetic, ExprPolynomial, ExprDangling, ExprBlank, EmptyString,
     ExprDerivative, ExprDerivativeUpper, ExprDerivativeNoVariable,
     ExprDerivativeUnknown, ExprIntegral, ExprIntegralNoVariable,
     ExprSolve, ExprSolveSpaced, ExprSolveEquation, ExprSolveDerivative,
     ExprIntegralDiff, ExprSolveIntegral, ExprLimit, ExprLimitRatio,
     ExprLimitFree, ExprLimitNoOperands, ExprSolveLimit, ExprDiffIntegrate,
     ExprSolveWord, ExprLimWord, ExprAssignment,
     ExprDiff, ExprDifferentiate, ExprIntegrate, ExprLimCall}

\* the bodies posted to /api/math/solve and /api/math/validate; the last one
\* leaves the expression out
MathBodies == {[expression |-> e] : e \in MathExpressions} \cup {[other |-> TRUE]}


(***************************************************************************)
(* backend/routes/math.js.  A handler is an operator from the request body *)
(* to the response it sends and what the solver returned to it; a response *)
(* is the record of its JSON body and its status.                          *)
(***************************************************************************)
\* the fields of both records; where both have a field, that of extra
Assign(target, extra) ==
    [f \in DOMAIN target \cup DOMAIN extra |->
        IF f \in DOMAIN extra THEN extra[f] ELSE target[f]]

\* router.post("/solve"); outcome is what solve(expr, variable) does
MathSolveRoute(b, outcome) ==
    IF ~Has(b, "expression") \/ b.expression = EmptyString
    THEN [response |-> [status |-> 400, success |-> FALSE,
                        error |-> "Expression is required", type |-> "validation"],
          ret |-> NoResult]
    ELSE LET validation == validateMathExpression(b.expression)
             expressionType == getExpressionType(b.expression)
             solved == solveMathExpression(b.expression, outcome)
         IN  IF ~validation.valid
             THEN [response |-> [status |-> 400, success |-> FALSE,
                                 error |-> validation.error, type |-> "validation"],
                   ret |-> NoResult]
             ELSE [response |->
                       Assign(solved.result,
                              [status |-> 200,
                               inputExpression |-> b.expression,
                               detectedType |-> expressionType]),
                   ret |-> solved]

\* router.post('/validate')
MathValidateRoute(b) ==
    IF ~Has(b, "expression") \/ b.expression = EmptyString
    THEN [response |-> [status |-> 400, valid |-> FALSE,
                        error |-> "Expression is required"],
          ret |-> NoResult]
    ELSE LET result == validateMathExpression(b.expression)
         IN  [response |->
                  Assign(result,
                         [status |-> 200,
                          type |-> IF result.valid
                                   THEN getExpressionType(b.expression)
                                   ELSE "null"]),
              ret |-> NoResult]

(***************************************************************************)
(* backend/utils/plot3dSolver.js: validate3DExpression                     *)
(***************************************************************************)
\* parameters[name] is truthy
ParameterTruthy(parameters, name) ==
    \E k \in DOMAIN parameters :
        parameters[k].name = name /\ ~Falsy(parameters[k].value)

\* extractNodes applied to each node of nodes in turn: the names it pushes to
\* variables and to functions, in the order it pushes them
RECURSIVE extractNodes(_, _)
extractNodes(nodes, parameters) ==
    IF nodes = <<>> THEN [variables |-> <<>>, functions |-> <<>>]
    ELSE LET node == Head(nodes)
             rest == extractNodes(
                         (IF Has(node, "args") THEN node.args ELSE <<>>)
                             \o Tail(nodes),
                         parameters)
         IN  IF node.type = "SymbolNode"
             THEN IF node.name \notin {"x", "y", "e", "pi"}
                     /\ ~ParameterTruthy(parameters, node.name)
                  THEN [rest EXCEPT !.variables = <<node.name>> \o @]
                  ELSE rest
             ELSE IF node.type = "FunctionNode"
             THEN [rest EXCEPT !.functions = <<node.name>> \o @]
             ELSE rest

\* arr.filter(keep)
RECURSIVE Filter(_, _)
Filter(arr, keep) ==
    IF arr = <<>> THEN <<>>
    ELSE (IF Head(arr) \in keep THEN <<Head(arr)>> ELSE <<>>) \o Filter(Tail(arr), keep)

\* [...new Set(arr)]
RECURSIVE Unique(_)
Unique(arr) ==
    IF arr = <<>> THEN <<>>
    ELSE LET front == Unique(SubSeq(arr, 1, Len(arr) - 1))
             last == arr[Len(arr)]
         IN  IF \E k \in DOMAIN front : front[k] = last THEN front
             ELSE Append(front, last)

dangerousFunctions == {"eval", "import", "require"}

\* validate3DExpression; an error message built from a template is the
\* tuple of its parts
validate3DExpression(equation, parameters) ==
    LET parsed == MathParse(equation)
        extracted == extractNodes(<<parsed.node>>, parameters)
        variables == extracted.variables
        functions == extracted.functions
        w1 == IF ~Includes(equation, "x") /\ ~Includes(equation, "y")
              THEN <<"Expression does not contain x or y variables">>
              ELSE <<>>
        undefinedVars ==
            Filter(variables,
                   {v \in {variables[k] : k \in DOMAIN variables} :
                       ~ParameterTruthy(parameters, v)})
        w2 == IF Len(undefinedVars) > 0
              THEN Append(w1, "Undefined variables") ELSE w1
        foundDangerous == Filter(functions, dangerousFunctions)
        testResult == Evaluate3DFunction(equation, Zero, Zero, parameters)
        warnings == IF ~testResult.ok
                    THEN Append(w2, "Function evaluation test failed")
                    ELSE IF ~IsFinite(testResult.z)
                    THEN Append(w2, "Function may produce invalid results at some points")
                    ELSE w2
    IN  IF equation = EmptyString
        THEN [isValid |-> FALSE, error |-> <<"Equation must be a non-empty string">>,
              variables |-> <<>>, functions |-> <<>>, warnings |-> <<>>]
        ELSE IF ~parsed.ok
        THEN [isValid |-> FALSE,
              error |-> <<"Expression validation failed: ", "SyntaxError">>,
              variables |-> <<>>, functions |-> <<>>,
              warnings |-> <<"Invalid mathematical expression">>]
        ELSE IF Len(foundDangerous) > 0
        THEN [isValid |-> FALSE,
              error |-> <<"Dangerous functions detected: ", foundDangerous>>,
              variables |-> variables, functions |-> functions, warnings |-> w2]
        ELSE [isValid |-> Len(warnings) = 0,
              variables |-> Unique(variables), functions |-> Unique(functions),
              warnings |-> warnings]

(***************************************************************************)
(* backend/routes/plot3d.js: POST /evaluate and POST /validate (the        *)
(* timestamps and the computation time are left out)                       *)
(***************************************************************************)
\* router.post('/evaluate'); a coordinate that is not a number is one the
\* body leaves out
Evaluate3DRoute(b) ==
    IF ~Has(b, "equation") \/ b.equation = EmptyString
       \/ ~Has(b, "x") \/ ~Has(b, "y")
    THEN [response |->
              [status |-> 400, success |-> FALSE,
               error |-> "Invalid input: equation, x, and y coordinates are required",
               details |->
                   [equation |-> IF Has(b, "equation") /\ b.equation # EmptyString
                                 THEN "provided" ELSE "missing",
                    x |-> IF Has(b, "x") THEN "valid" ELSE "invalid",
                    y |-> IF Has(b, "y") THEN "valid" ELSE "invalid"]],
          ret |-> NoResult]
    ELSE LET parameters == IF Has(b, "parameters") THEN b.parameters ELSE <<>>
             result == Evaluate3DFunction(b.equation, b.x, b.y, parameters)
         IN  IF result.ok
             THEN [response |->
                       [status |-> 200, success |-> TRUE,
                        data |-> [x |-> b.x, y |-> b.y, z |-> result.z,
                                  equation |-> b.equation,
                                  parameters |-> parameters]],
                   ret |-> [kind |-> "evaluated", z |-> result.z]]
             ELSE [response |->
                       [status |-> 500, success |-> FALSE,
                        error |-> "Failed to evaluate 3D function",
                        details |-> "3D function evaluation failed: "],
                   ret |-> [kind |-> "throw",
                            message |-> "3D function evaluation failed: "]]

\* router.post('/validate')
Validate3DRoute(b) ==
    IF ~Has(b, "equation") \/ b.equation = EmptyString
    THEN [response |-> [status |-> 400, success |-> FALSE,
                        error |-> "Equation is required for validation"],
          ret |-> NoResult]
    ELSE LET parameters == IF Has(b, "parameters") THEN b.parameters ELSE <<>>
             validation == validate3DExpression(b.equation, parameters)
         IN  [response |->
                  [status |-> 200, success |-> TRUE,
                   data |-> [isValid |-> validation.isValid,
                             variables |-> validation.variables,
                             functions |-> validation.functions,
                             warnings |-> validation.warnings],
                   metadata |-> [equation |-> b.equation]],
              ret |-> Assign(validation, [kind |-> "validated"])]

(***************************************************************************)
(* Requests to /api/plot3d/evaluate and /api/plot3d/validate               *)
(***************************************************************************)
\* z^2 + x
ParameterSquare == <<Sym("z"), Op("^"), Lit(Num(2)), Op("+"), Sym("x")>>
\* eval(x)
EvalCall == <<Sym("eval"), Op("("), Sym("x"), Op(")")>>
\* x+eval(y)
EvalOperand == <<Sym("x"), Op("+")>> \o <<Sym("eval"), Op("("), Sym("y"), Op(")")>>
\* foo(require(x))
RequireArgument ==
    <<Sym("foo"), Op("("), Sym("require"), Op("("), Sym("x"), Op(")"), Op(")")>>
\* (eval(x))+y
EvalInParentheses == <<Op("(")>> \o EvalCall \o <<Op(")"), Op("+"), Sym("y")>>
\* x*(import(y))
ImportInParentheses ==
    <<Sym("x"), Op("*"), Op("("), Sym("import"), Op("("), Sym("y"), Op(")"), Op(")")>>
\* x+
DanglingPlus == <<Sym("x"), Op("+")>>

\* a parameter whose value is no finite number is given the value NaN
EvaluateParameters ==
    {<<>>, <<[name |-> "z", value |-> Num(-2)]>>,
     <<[name |-> "z", value |-> Num(3)]>>, <<[name |-> "z", value |-> NaN]>>}

EvaluateBodies ==
    {[equation |-> e, x |-> x, y |-> Num(3), parameters |-> ps] :
        e \in {Paraboloid, UndefinedZ, ParameterSquare},
        x \in {Num(-1), Num(2)}, ps \in EvaluateParameters}
    \cup {[equation |-> Paraboloid, y |-> Num(3)],
          [x |-> Num(2), y |-> Num(3)],
          [equation |-> Ratio, x |-> Num(2), y |-> Zero]}

ValidateBodies ==
    {[equation |-> e, parameters |-> ps] :
        e \in {Paraboloid, UndefinedZ, EvalCall, EvalOperand, RequireArgument,
               EvalInParentheses, ImportInParentheses, DanglingPlus},
        ps \in {<<>>, <<[name |-> "z", value |-> Num(3)]>>}}
    \cup {[parameters |-> <<>>], [equation |-> Ratio],
          [equation |-> UndefinedZ, parameters |-> <<[name |-> "z", value |-> Zero]>>]}

(***************************************************************************)
(* The backend answering one request after another.  A handler of the two  *)
(* routers runs from the request to its response without yielding to       *)
(* another request (the awaits of /evaluate and /validate are on calls     *)
(* that do no input or output), so each is one step.                       *)
(***************************************************************************)
\* the value v itself.  The comparison brings the records and the sets of v
\* to their normal form where v is computed, before the value is kept by the
\* action that is handed it.
Normalized(v) == IF v = v THEN v ELSE v

\* slot c receives the request for r with body b and answers it with out
Handle(c, r, b, out) ==
    /\ pc[c] \in {"idle", "responded"}
    /\ requests[c] < MaxRequests
    /\ route' = [route EXCEPT ![c] = [method |-> "POST", path |-> r]]
    /\ body' = [body EXCEPT ![c] = b]
    /\ response' = [response EXCEPT ![c] = out.response]
    /\ ret' = [ret EXCEPT ![c] = out.ret]
    /\ pc' = [pc EXCEPT ![c] = "responded"]
    /\ requests' = [requests EXCEPT ![c] = @ + 1]
    /\ UNCHANGED <<args, env, loop, acc, pending, prev, interleaved, frontend>>

MathSolve(c) ==
    \E b \in MathBodies : \E outcome \in SolveOutcomes :
        Handle(c, <<"api", "math", "solve">>, b,
               Normalized(MathSolveRoute(b, outcome)))

MathValidate(c) ==
    \E b \in MathBodies :
        Handle(c, <<"api", "math", "validate">>, b,
               Normalized(MathValidateRoute(b)))

Plot3dEvaluate(c) ==
    \E b \in EvaluateBodies :
        Handle(c, <<"api", "plot3d", "evaluate">>, b,
               Normalized(Evaluate3DRoute(b)))

Plot3dValidate(c) ==
    \E b \in ValidateBodies :
        Handle(c, <<"api", "plot3d", "validate">>, b,
               Normalized(Validate3DRoute(b)))

NextApi ==
    \/ MathSolve(1)
    \/ MathValidate(1)
    \/ Plot3dEvaluate(1)
    \/ Plot3dValidate(1)

SpecApi == Init /\ [][NextApi]_vars


(***************************************************************************)
(* Properties of the math router                                           *)
(***************************************************************************)
\* slot c has answered a request to /api/math/solve
SolveAnswered(c) ==
    pc[c] = "responded" /\ route[c].path = <<"api", "math", "solve">>

\* ... and solveMathExpression was called for it
Solved(c) == SolveAnswered(c) /\ ret[c].kind = "solved"

\* the operations in the order of their priority
Priority == <<"derivative", "integral", "solve", "limit">>

\* the operations whose trigger the input matches when case is ignored
Triggered(str) ==
    LET lower == ToLowerCase(str)
    IN  {op \in {Priority[k] : k \in DOMAIN Priority} :
            CASE op = "derivative" -> isDerivativeOperation(lower)
              [] op = "integral" -> isIntegralOperation(lower)
              [] op = "solve" -> isSolveOperation(lower)
              [] op = "limit" -> isLimitOperation(lower)}

\* the first of them in the order of priority, "default" when there is none
HighestPriority(str) ==
    IF Triggered(str) = {} THEN "default"
    ELSE Priority[Least({k \in DOMAIN Priority : Priority[k] \in Triggered(str)})]

\* the handler of solveMathExpression for an operation
HandlerOf(op) == IF op = "default" THEN "simplify" ELSE op

\* the name getExpressionType gives an operation
TypeOf(op) ==
    CASE op = "solve" -> "equation"
      [] op = "default" -> "simplification"
      [] OTHER -> op

\* C11: solveMathExpression and getExpressionType both classify an input,
\* ignoring case, by the priority derivative > integral > solve > limit >
\* default: the handler that solved a request and the type reported for it
\* (by /solve and by /validate) are those of the highest-priority operation
\* whose trigger the expression matches.
C11_Priority ==
    \A c \in Calls :
        /\ Solved(c) =>
               /\ ret[c].handler = HandlerOf(HighestPriority(body[c].expression))
               /\ response[c].detectedType = TypeOf(HighestPriority(body[c].expression))
        /\ (/\ pc[c] = "responded"
            /\ route[c].path = <<"api", "math", "validate">>
            /\ response[c].status = 200 /\ response[c].valid) =>
               response[c].type = TypeOf(HighestPriority(body[c].expression))

\* an expression with a solve trigger and a derivative trigger was handled
\* as a derivative
C11_Witness ==
    \E c \in Calls :
        /\ Solved(c)
        /\ body[c].expression = ExprSolveDerivative
        /\ {"solve", "derivative"} \subseteq Triggered(body[c].expression)
        /\ ret[c].handler = "derivative"
        /\ response[c].detectedType = "derivative"


\* the result a failure is to be reported with
UniformError(result) ==
    /\ ~result.success
    /\ Has(result, "error") /\ Has(result, "type")
    /\ result.steps = <<>>
    /\ result.finalAnswer = Text("")

\* C12: solveMathExpression never throws, and whenever the extraction of the
\* operands fails or a call into mathjs throws while it handles an input, the
\* result it returns is {success: false, error, type} with steps = [] and
\* finalAnswer = "", whatever the operation.
C12_UniformErrors ==
    \A c \in Calls :
        Solved(c) /\ ret[c].failed # {} => UniformError(ret[c].result)

\* the part of C12 that holds: solveMathExpression returns (it never throws),
\* a failed extraction of the operands and a failed differentiation are
\* reported uniformly, and a result with success: false is always uniform
C12_ExtractionErrors ==
    \A c \in Calls :
        Solved(c) =>
            /\ ret[c].failed \cap {"extraction", "derivative"} # {} =>
                   UniformError(ret[c].result)
            /\ ~ret[c].result.success => UniformError(ret[c].result)

\* limit(x, 0, y): evaluate throws, and solveLimit answers with success
C12_SwallowedFailure ==
    \E c \in Calls :
        /\ Solved(c)
        /\ body[c].expression = ExprLimitFree
        /\ ret[c].failed = {"evaluate"}
        /\ ret[c].result.success
        /\ Len(ret[c].result.steps) = 2


\* 2xx
SuccessStatus(status) == status >= 200 /\ status <= 299

\* C13: POST /api/math/solve answers a missing or malformed expression with
\* 400 and type 'validation', answers 500 when a call into mathjs fails while
\* solving, and never sends success: false with a 2xx status.
C13_StatusCodes ==
    \A c \in Calls :
        SolveAnswered(c) =>
            /\ (~Has(body[c], "expression")
                \/ ~validateMathExpression(body[c].expression).valid) =>
                   response[c].status = 400 /\ response[c].type = "validation"
            /\ (Solved(c) /\ ret[c].failed \ {"extraction"} # {}) =>
                   response[c].status = 500
            /\ (Has(response[c], "success") /\ ~response[c].success) =>
                   ~SuccessStatus(response[c].status)

\* the part of C13 that holds: a missing or malformed expression is answered
\* with 400 and type 'validation', and every other request with 200
C13_ValidationStatus ==
    \A c \in Calls :
        SolveAnswered(c) =>
            IF ~Has(body[c], "expression")
               \/ ~validateMathExpression(body[c].expression).valid
            THEN response[c].status = 400 /\ response[c].type = "validation"
            ELSE response[c].status = 200

\* derivative(foo(x), x): derivative() throws, and the error result goes out
\* with status 200
C13_FailureSentAsSuccess ==
    \E c \in Calls :
        /\ Solved(c)
        /\ body[c].expression = ExprDerivativeUnknown
        /\ ret[c].failed = {"derivative"}
        /\ ~response[c].success
        /\ response[c].status = 200


(***************************************************************************)
(* Properties of both routers                                              *)
(***************************************************************************)
\* slot c has sent an error response
ErrorAnswered(c) == pc[c] = "responded" /\ response[c].status >= 400

\* C14: every error response of a handler of the math and plot3d routers, be
\* it for a validation error or for a caught exception, is a JSON object with
\* success: false, an error string and a type string.
C14_ErrorShape ==
    \A c \in Calls :
        ErrorAnswered(c) =>
            /\ Has(response[c], "success") /\ ~response[c].success
            /\ Has(response[c], "error")
            /\ Has(response[c], "type")

\* the part of C14 that holds: every error response carries an error string,
\* and those of /api/math/solve carry success: false and a type as well
C14_SolveErrorShape ==
    \A c \in Calls :
        ErrorAnswered(c) =>
            /\ Has(response[c], "error")
            /\ SolveAnswered(c) =>
                   /\ Has(response[c], "success") /\ ~response[c].success
                   /\ Has(response[c], "type")

\* /api/plot3d/evaluate has answered 500 after evaluate3DFunction threw, with
\* no type in the response
C14_UntypedError ==
    \E c \in Calls :
        /\ ErrorAnswered(c)
        /\ route[c].path = <<"api", "plot3d", "evaluate">>
        /\ ret[c].kind = "throw"
        /\ response[c].status = 500
        /\ ~Has(response[c], "type")


\* the name getExpressionType has for the operation a handler of
\* solveMathExpression carries out
TypeOfHandler(handler) ==
    CASE handler = "solve" -> "equation"
      [] handler = "simplify" -> "simplification"
      [] OTHER -> handler

\* C15: POST /api/math/solve checks presence, then syntax, then classifies,
\* then solves: a missing or empty expression and one validateMathExpression
\* rejects are answered 400 without the solver being called; any other
\* request has the solver called once, on the expression of the request, and
\* its response is the solver's result with inputExpression equal to that
\* expression and detectedType naming the operation of the handler
\* solveMathExpression dispatched to.
C15_SolveOrder ==
    \A c \in Calls :
        SolveAnswered(c) =>
            IF \/ ~Has(body[c], "expression")
               \/ body[c].expression = EmptyString
               \/ ~validateMathExpression(body[c].expression).valid
            THEN response[c].status = 400 /\ ret[c] = NoResult
            ELSE /\ \E outcome \in SolveOutcomes :
                        ret[c] = solveMathExpression(body[c].expression, outcome)
                 /\ \A f \in DOMAIN ret[c].result :
                        response[c][f] = ret[c].result[f]
                 /\ response[c].inputExpression = body[c].expression
                 /\ response[c].detectedType = TypeOfHandler(ret[c].handler)

\* a request with a solve trigger in capitals and white space before the
\* parenthesis was solved by the handler for equations and reported as one
C15_Witness ==
    \E c \in Calls :
        /\ Solved(c)
        /\ body[c].expression = ExprSolveSpaced
        /\ ret[c].handler = "solve"
        /\ response[c].detectedType = "equation"
        /\ response[c].inputExpression = ExprSolveSpaced


(***************************************************************************)
(* Properties of validate3DExpression and evaluate3DFunction               *)
(***************************************************************************)
\* slot c has answered a request to /api/plot3d/validate by calling
\* validate3DExpression
Validated(c) ==
    /\ pc[c] = "responded"
    /\ route[c].path = <<"api", "plot3d", "validate">>
    /\ ret[c].kind = "validated"

\* the children of a node of the expression tree, whatever they hang on
Children(node) ==
    (IF Has(node, "args") THEN node.args ELSE <<>>)
    \o (IF Has(node, "content") THEN <<node.content>> ELSE <<>>)
    \o (IF Has(node, "value") /\ node.type = "AssignmentNode"
        THEN <<node.value>> ELSE <<>>)

\* some node of the trees is a call of a function named in names
RECURSIVE ContainsCall(_, _)
ContainsCall(nodes, names) ==
    /\ nodes # <<>>
    /\ \/ Head(nodes).type = "FunctionNode" /\ Head(nodes).name \in names
       \/ ContainsCall(Children(Head(nodes)) \o Tail(nodes), names)

\* some node reached from the trees through argument lists only is such a call
RECURSIVE ContainsCallInArguments(_, _)
ContainsCallInArguments(nodes, names) ==
    /\ nodes # <<>>
    /\ \/ Head(nodes).type = "FunctionNode" /\ Head(nodes).name \in names
       \/ ContainsCallInArguments(
              (IF Has(Head(nodes), "args") THEN Head(nodes).args ELSE <<>>)
                  \o Tail(nodes), names)

\* validate3DExpression has reported dangerous functions
DangerReported(validation) ==
    /\ ~validation.isValid
    /\ Has(validation, "error")
    /\ validation.error[1] = "Dangerous functions detected: "

\* C16: validate3DExpression returns isValid = false with a 'Dangerous
\* functions detected' error whenever the parsed expression holds a call of
\* eval, import or require at any depth of the tree, inside parentheses and
\* other children that are no arguments included.
C16_DangerousAtAnyDepth ==
    \A c \in Calls :
        (/\ Validated(c)
         /\ MathParse(body[c].equation).ok
         /\ ContainsCall(<<MathParse(body[c].equation).node>>, dangerousFunctions))
            => DangerReported(ret[c])

\* the part of C16 that holds: a dangerous call that is reached through the
\* arguments of operators and functions is reported
C16_DangerousInArguments ==
    \A c \in Calls :
        (/\ Validated(c)
         /\ MathParse(body[c].equation).ok
         /\ ContainsCallInArguments(<<MathParse(body[c].equation).node>>,
                                    dangerousFunctions))
            => DangerReported(ret[c])

\* (eval(x))+y was validated and no dangerous function was reported or found
C16_EvalInParenthesesMissed ==
    \E c \in Calls :
        /\ Validated(c)
        /\ body[c].equation = EvalInParentheses
        /\ ~Has(ret[c], "error")
        /\ ret[c].functions = <<>>


\* slot c has answered a request to /api/plot3d/evaluate by calling
\* evaluate3DFunction
Evaluated(c) ==
    /\ pc[c] = "responded"
    /\ route[c].path = <<"api", "plot3d", "evaluate">>
    /\ ret[c].kind \in {"evaluated", "throw"}

\* the parameters of the request slot c answered
ParametersOf(c) == IF Has(body[c], "parameters") THEN body[c].parameters ELSE <<>>

\* the equation with every declared parameter of a finite value bound to that
\* value: the name stands for the number as one operand
RECURSIVE BindParameters(_, _)
BindParameters(equation, parameters) ==
    IF parameters = <<>> THEN equation
    ELSE BindParameters(
             IF IsFinite(Head(parameters).value)
             THEN ReplaceWord(equation, Head(parameters).name,
                              <<Lit(Head(parameters).value)>>)
             ELSE equation,
             Tail(parameters))

\* the value of the equation under those bindings and x, y bound to numbers
BoundValue(equation, x, y, parameters) ==
    Evaluate(ReplaceWord(ReplaceWord(BindParameters(equation, parameters),
                                     "x", <<Lit(x)>>),
                         "y", <<Lit(y)>>))

\* C17: the substitution of evaluate3DFunction preserves bindings: for finite
\* x and y and a map of parameters, the z it returns is the value of the
\* equation with x, y and every parameter of a finite value bound to its
\* number, negative values included, a parameter whose value is no finite
\* number being left alone.
C17_BindingPreserving ==
    \A c \in Calls :
        Evaluated(c) =>
            LET bound == BoundValue(body[c].equation, body[c].x, body[c].y,
                                    ParametersOf(c))
            IN  IF bound.ok /\ IsFinite(bound.v)
                THEN ret[c].kind = "evaluated" /\ ret[c].z = bound.v
                ELSE ret[c].kind = "throw"

\* the part of C17 that holds: with no negative parameter value the value
\* returned is the value under the bindings
C17_NonNegativeParameters ==
    \A c \in Calls :
        (/\ Evaluated(c)
         /\ \A k \in DOMAIN ParametersOf(c) :
                IsFinite(ParametersOf(c)[k].value) =>
                    ParametersOf(c)[k].value[1] >= 0)
            => LET bound == BoundValue(body[c].equation, body[c].x, body[c].y,
                                       ParametersOf(c))
               IN  IF bound.ok /\ IsFinite(bound.v)
                   THEN ret[c].kind = "evaluated" /\ ret[c].z = bound.v
                   ELSE ret[c].kind = "throw"

\* z^2 + x with z = -2 and x = 2 was evaluated to -2 in place of 6
C17_NegativeParameterMisbound ==
    \E c \in Calls :
        /\ Evaluated(c)
        /\ body[c].equation = ParameterSquare
        /\ body[c].x = Num(2)
        /\ ParametersOf(c) = <<[name |-> "z", value |-> Num(-2)]>>
        /\ ret[c].kind = "evaluated"
        /\ ret[c].z = Num(-2)
        /\ BoundValue(ParameterSquare, Num(2), Num(3), ParametersOf(c)).v = Num(6)


(***************************************************************************)
(* Termination of generate3DData.  Each call of evaluate3DFunction settles *)
(* (it awaits nothing), and the event loop of Node.js runs the             *)
(* continuation of a settled await: a call of generate3DData that can      *)
(* resume does resume, and so does the handler that awaits it.             *)
(***************************************************************************)
\* requests to /surface with integer resolutions, with resolutions the clamp
\* changes, and with one that is no integer
LiveBodies ==
    {[equation |-> e, domain |-> d, resolution |-> r] :
        e \in {Paraboloid, UndefinedZ},
        d \in {UnitSquare, FromZero, NoX},
        r \in {Num(5), Num(MinResolution), Num(MinResolution + ResolutionSpan),
               Norm(2 * MinResolution + 1, 2)}}

\* one request, from its arrival to its response
NextLive ==
    \/ SurfaceRequest(1, LiveBodies)
    \/ ResumeSample(1)
    \/ Respond(1)

\* the positions the sampling loop of these requests goes through
LoopPositions ==
    [i : 0 .. MinResolution + ResolutionSpan + 1,
     j : 0 .. MinResolution + ResolutionSpan + 1]

\* the step that resumes the suspended call c, told by what it does to the
\* position of the loop: the steps of ResumeSample(c) are the steps of
\* NextLive that move the loop of a call suspended at its await.  What the
\* step makes of the accumulators, of the settled evaluation and of the
\* return value is left open here.
Resumes(c) ==
    /\ pc[c] = "await_evaluate"
    /\ \E l \in LoopPositions \ {loop[c]} : loop' = [loop EXCEPT ![c] = l]
    /\ pc' \in {pc, [pc EXCEPT ![c] = "await_generate"]}
    /\ acc' = acc \/ acc' # acc
    /\ pending' = pending \/ pending' # pending
    /\ ret' = ret \/ ret' # ret
    /\ interleaved' \in BOOLEAN
    /\ UNCHANGED <<body, args, env, response, requests, prev, route, frontend>>

SpecLive ==
    /\ Init
    /\ [][NextLive]_vars
    /\ WF_vars(Resumes(1))
    /\ WF_vars(Respond(1))

\* the largest integer that is at most v, the smallest that is at least v
Floor(v) == v[1] \div v[2]
Ceiling(v) == -((-v[1]) \div v[2])

\* the calls of evaluate3DFunction call c has made so far: one per sample it
\* has pushed, and the one it is waiting for
Evaluations(c) ==
    Len(acc[c].vertices) \div 3 + (IF pc[c] = "await_evaluate" THEN 1 ELSE 0)

\* generate3DData is running or has returned for slot c
InGenerate(c) ==
    pc[c] = "await_evaluate" \/ (pc[c] = "await_generate" /\ Returned(c))

\* generate3DData has settled for slot c: it has returned or thrown
Settled(c) == pc[c] = "await_generate" /\ ret[c].kind \in {"return", "throw"}

\* the bounds as res^2 states them
C18_QuadBound ==
    \A c \in Calls :
        InGenerate(c) =>
            /\ Leq(env[c].res, Num(MaxResolution))
            /\ Leq(Num(Evaluations(c)),
                   Mul(Add(env[c].res, Num(1)), Add(env[c].res, Num(1))))
            /\ Leq(Num(Len(acc[c].indices) \div 6), Mul(env[c].res, env[c].res))

C18_CeilingBound ==
    \A c \in Calls :
        InGenerate(c) =>
            /\ Leq(env[c].res, Num(MaxResolution))
            /\ Leq(Num(Evaluations(c)),
                   Mul(Add(env[c].res, Num(1)), Add(env[c].res, Num(1))))
            /\ Evaluations(c) <= (Floor(env[c].res) + 1) * (Floor(env[c].res) + 1)
            /\ Len(acc[c].indices) \div 6
                   <= Ceiling(env[c].res) * Ceiling(env[c].res)
            /\ IsInteger(env[c].res) =>
                   Leq(Num(Len(acc[c].indices) \div 6),
                       Mul(env[c].res, env[c].res))

HookDefaultResolution == 50
\* the z of a sample that cannot be evaluated
Placeholder == Norm(1, 1000)
\* useState({resolution: 30, ...}) and the Resolution slider
InitialResolution == 30
SliderMin == 10
SliderMax == 100
SliderStep == 5

\* the body of the sampling loop: what one sample pushes
HookSample(equation, x, y) ==
    LET expr == ReplaceWord(ReplaceWord(equation, "x", Parenthesised(x)),
                            "y", Parenthesised(y))
        z == Evaluate(expr)
    IN  IF z.ok /\ IsFinite(z.v) THEN <<x, y, z.v>> ELSE <<x, y, Placeholder>>

\* the inner sampling loop from column j on
RECURSIVE HookRow(_, _, _, _, _)
HookRow(equation, domain, resolution, i, j) ==
    IF Leq(Num(j), resolution)
    THEN HookSample(equation,
                    Add(domain.x[1],
                        Mul(Sub(domain.x[2], domain.x[1]), Div(Num(i), resolution))),
                    Add(domain.y[1],
                        Mul(Sub(domain.y[2], domain.y[1]), Div(Num(j), resolution))))
         \o HookRow(equation, domain, resolution, i, j + 1)
    ELSE <<>>

\* the outer sampling loop from row i on
RECURSIVE HookGrid(_, _, _, _)
HookGrid(equation, domain, resolution, i) ==
    IF Leq(Num(i), resolution)
    THEN HookRow(equation, domain, resolution, i, 0)
         \o HookGrid(equation, domain, resolution, i + 1)
    ELSE <<>>

\* the quad (i, j) with rows eight times as far apart
HookQuadWide(i, j, resolution) ==
    LET a == Add(Mul(Num(8 * i), Add(resolution, Num(1))), Num(j))
        b == Add(a, Num(1))
        c == Add(Add(a, resolution), Num(1))
        d == Add(c, Num(1))
    IN  <<a, b, c>> \o <<b, d, c>>

\* the six indices of the quad (i, j)
HookQuad(i, j, resolution) ==
    LET a == Add(Mul(Num(i), Add(resolution, Num(1))), Num(j))
        b == Add(a, Num(1))
        c == Add(Add(a, resolution), Num(1))
        d == Add(c, Num(1))
    IN  <<a, b, c>> \o <<b, d, c>>

RECURSIVE HookIndexRow(_, _, _)
HookIndexRow(i, j, resolution) ==
    IF Lt(Num(j), resolution)
    THEN HookQuad(i, j, resolution) \o HookIndexRow(i, j + 1, resolution)
    ELSE <<>>

RECURSIVE HookIndexPass(_, _)
HookIndexPass(i, resolution) ==
    IF Lt(Num(i), resolution)
    THEN HookIndexRow(i, 0, resolution) \o HookIndexPass(i + 1, resolution)
    ELSE <<>>

\* the function useFunction3D hands to useMemo
useFunction3D(equation, domain, resolution) ==
    IF ~Has(domain, "x") \/ ~Has(domain, "y")
    THEN [vertices |-> <<>>, indices |-> <<>>]
    ELSE [vertices |-> HookGrid(equation, domain, resolution, 0),
          indices |-> HookIndexPass(0, resolution)]

\* useMemo: the value kept from the render before when the dependencies are
\* the same, a new one when they are not
useMemo(memo, equation, domain, resolution) ==
    IF memo.deps = <<equation, domain, resolution>> THEN memo
    ELSE [deps |-> <<equation, domain, resolution>>,
          value |-> useFunction3D(equation, domain, resolution)]

\* a useMemo that has not run
NoMemo == [deps |-> <<>>, value |-> [vertices |-> <<>>, indices |-> <<>>]]

\* Surface3D: it calls useFunction3D(equation, domain), so that resolution
\* takes its default; the element it returns is kept as the count
\* attributes of its two buffers and its opacity
Surface3D(memo, equation, domain, color, opacity) ==
    LET kept == useMemo(memo, equation, domain, Num(HookDefaultResolution))
    IN  [memo |-> kept,
         element |->
             IF Len(kept.value.vertices) = 0 THEN [null |-> TRUE]
             ELSE [null |-> FALSE,
                   count |-> Norm(Len(kept.value.vertices), 3),
                   indexCount |-> Len(kept.value.indices),
                   color |-> color, opacity |-> opacity]]

\* a render of Plot3D with the props and state p: the Surface3D it renders
\* with equation, domain, color and opacity
RenderPlot3D(p) ==
    LET rendered == Surface3D(p.memo, p.equation, p.domain,
                              p.plotSettings.color, p.plotSettings.opacity)
    IN  [p EXCEPT !.memo = rendered.memo, !.surface = rendered.element]

\* the props a page gives Plot3D
PlotEquations == {Paraboloid, Ratio}
PlotDomains == {UnitSquare}

\* React mounts Plot3D
MountPlot3D ==
    /\ ~plot.mounted
    /\ \E equation \in PlotEquations : \E domain \in PlotDomains :
           plot' = RenderPlot3D(
                       [mounted |-> TRUE, equation |-> equation, domain |-> domain,
                        showGrid |-> TRUE,
                        plotSettings |-> [resolution |-> InitialResolution,
                                          opacity |-> Norm(8, 10),
                                          wireframe |-> FALSE,
                                          color |-> "#3b82f6"],
                        memo |-> NoMemo, surface |-> [null |-> TRUE]])
    /\ UNCHANGED <<pc, body, args, env, loop, acc, pending, ret, response,
                   requests, prev, interleaved, route, page, visualization,
                   call>>

\* the values of the Resolution slider
SliderValues ==
    {SliderMin + k * SliderStep : k \in 0 .. (SliderMax - SliderMin) \div SliderStep}

\* the user moves the Resolution slider to r
ChangeResolution ==
    /\ plot.mounted
    /\ \E r \in SliderValues \ {plot.plotSettings.resolution} :
           plot' = RenderPlot3D([plot EXCEPT !.plotSettings.resolution = r])
    /\ UNCHANGED <<pc, body, args, env, loop, acc, pending, ret, response,
                   requests, prev, interleaved, route, page, visualization,
                   call>>

\* the user ticks or unticks Wireframe
ToggleWireframe ==
    /\ plot.mounted
    /\ plot' = RenderPlot3D([plot EXCEPT !.plotSettings.wireframe = ~@])
    /\ UNCHANGED <<pc, body, args, env, loop, acc, pending, ret, response,
                   requests, prev, interleaved, route, page, visualization,
                   call>>

\* the user ticks or unticks Show Grid
ToggleGrid ==
    /\ plot.mounted
    /\ plot' = RenderPlot3D([plot EXCEPT !.showGrid = ~@])
    /\ UNCHANGED <<pc, body, args, env, loop, acc, pending, ret, response,
                   requests, prev, interleaved, route, page, visualization,
                   call>>

NextPlot ==
    \/ MountPlot3D
    \/ ChangeResolution
    \/ ToggleWireframe
    \/ ToggleGrid

SpecPlot == Init /\ [][NextPlot]_vars

(***************************************************************************)
(* Properties of the Plot3D component                                      *)
(***************************************************************************)
\* the number of vertices of a mesh of resolution r
VerticesAt(r) == Num((r + 1) * (r + 1))

\* C19: the resolution setting of Plot3D is honoured: after the user has
\* changed plotSettings.resolution to a value r in [10, 100], the mesh
\* Surface3D renders is the one useFunction3D builds at resolution r: it has
\* (r+1)^2 vertices.
C19_ResolutionHonoured ==
    [][(/\ plot.mounted
        /\ plot'.plotSettings.resolution # plot.plotSettings.resolution)
          => /\ ~plot'.surface.null
             /\ plot'.surface.count = VerticesAt(plot'.plotSettings.resolution)]_vars

\* what holds instead: the mesh rendered always has the (50+1)^2 vertices of
\* the default resolution of useFunction3D, whatever the setting
C19_DefaultResolutionRendered ==
    plot.mounted =>
        /\ ~plot.surface.null
        /\ plot.surface.count = VerticesAt(HookDefaultResolution)
        /\ plot.surface.indexCount = 6 * HookDefaultResolution * HookDefaultResolution

\* the slider is at 10 and the mesh rendered has 51^2 vertices
C19_SettingIgnored ==
    /\ plot.mounted
    /\ plot.plotSettings.resolution = SliderMin
    /\ plot.surface.count = Num(2601)


(***************************************************************************)
(* The Solver page (frontend/src/pages/Solver.js, and the Solver.js        *)
(* written with hooks) and the Express application that answers it         *)
(* (backend/server.js).                                                    *)
(***************************************************************************)
SolverVersions == {"axios", "fetch"}

\* what the user can have in the equation field
\* derivative(x^2 + sin(x) + log(x) + exp(x), x)
ExprDerivativeAllRules ==
    CallOf("derivative",
           XSquared \o <<Space, Op("+"), Space, Sym("sin"), Op("("), Sym("x"), Op(")"),
                         Space, Op("+"), Space, Sym("log"), Op("("), Sym("x"), Op(")"),
                         Space, Op("+"), Space, Sym("exp"), Op("("), Sym("x"), Op(")")>>,
           <<Sym("x")>>)

FormValues ==
    {EmptyString, ExprBlank, <<Sym("x")>>, <<Space, Sym("x"), Space>>,
     ExprPolynomial, <<Space>> \o ExprPolynomial \o <<Space>>,
     ExprDerivative, ExprDangling, ExprSolve, ExprDerivativeAllRules}

\* the length of a string, counted up to 2: a token is one character when it
\* is an operator, a space, a digit or a one-letter name
ShortLength(str) ==
    LET long(tok) ==
            \/ tok.t = "sym" /\ tok.s \notin {"x", "y", "z", "a", "e", "X"}
            \/ tok.t = "num" /\ ~(tok.v[2] = 1 /\ tok.v[1] \in 0 .. 9)
    IN  IF Len(str) = 0 THEN 0
        ELSE IF Len(str) = 1 /\ ~long(str[1]) THEN 1
        ELSE 2

\* Yup.string().trim().required().min(2)
FormikValid(equation) == ShortLength(Trim(equation)) >= 2

\* the form lets a submit through to onSolve
CanSubmit(p) ==
    IF p.version = "axios"
    THEN FormikValid(p.equation) /\ ~p.isLoading
    ELSE Trim(p.equation) # EmptyString /\ ~p.isLoading

\* the request handleSolveEquation issues for equation
SolveRequest(version, equation) ==
    [method |-> "POST",
     path |-> IF version = "axios" THEN <<"api", "solve">>
              ELSE <<"api", "math", "solve">>,
     body |-> [expression |-> equation]]

\* the routes of the two routers and of the application, under their mounts
MathRouter ==
    {<<"POST", <<"solve">>>>, <<"GET", <<"examples">>>>, <<"POST", <<"validate">>>>}
Plot3dRouter ==
    {<<"POST", <<"evaluate">>>>, <<"POST", <<"surface">>>>,
     <<"POST", <<"validate">>>>, <<"GET", <<"presets">>>>, <<"GET", <<"stats">>>>}
ExpressRoutes ==
    {<<r[1], <<"api", "math">> \o r[2]>> : r \in MathRouter}
    \cup {<<r[1], <<"api", "plot3d">> \o r[2]>> : r \in Plot3dRouter}
    \cup {<<"GET", <<"api", "health">>>>}

\* the handler Express finds for a request, in a build that serves the
\* frontend (production) or not
ExpressRoute(method, path, production) ==
    IF <<method, path>> \in ExpressRoutes THEN <<method, path>>
    ELSE IF production /\ method = "GET" THEN <<"GET", <<"*">>>>
    ELSE <<>>

\* the answer of the application to a request the page issued: the solve
\* handler's, or the 404 page of Express when no route matches
ServerAnswer(request, production, outcome) ==
    LET handler == ExpressRoute(request.method, request.path, production)
    IN  CASE handler = <<"POST", <<"api", "math", "solve">>>> ->
                 [json |-> TRUE,
                  handled |-> MathSolveRoute(request.body, outcome)]
          [] handler = <<>> ->
                 [json |-> FALSE,
                  handled |-> [response |-> [status |-> 404,
                                             text |-> <<"Cannot ", request.method,
                                                        request.path>>],
                               ret |-> NoResult]]

\* the body of a response
DataOf(resp) == [f \in DOMAIN resp \ {"status"} |-> resp[f]]

\* the solution handleSolveEquation sets once the request is answered
SolutionOf(version, answer) ==
    LET resp == answer.handled.response
    IN  IF version = "axios"
        THEN IF resp.status \in 200 .. 299 THEN DataOf(resp)
             ELSE [success |-> FALSE,
                   error |-> IF answer.json /\ Has(resp, "error") THEN resp.error
                             ELSE "Failed to solve equation",
                   type |-> "error"]
        ELSE IF answer.json THEN DataOf(resp)
             ELSE [success |-> FALSE, error |-> "SyntaxError"]

\* SolverOutput.componentDidUpdate after a render that changed the equation
\* prop from before to after
componentDidUpdate(output, before, after) ==
    IF Has(output, "currentPage") /\ before # after
    THEN [output EXCEPT !.currentPage = 1]
    ELSE output

\* the router of App.js renders the Solver page
MountSolver ==
    /\ ~page.mounted
    /\ \E version \in SolverVersions : page' = InitialPage(version)
    /\ UNCHANGED <<pc, body, args, env, loop, acc, pending, ret, response,
                   requests, prev, interleaved, route, plot, visualization,
                   call>>

\* the user types in the equation field or picks an example
EditEquation ==
    /\ page.mounted
    /\ ~page.isLoading
    /\ \E equation \in FormValues \ {page.equation} :
           page' = [page EXCEPT !.equation = equation]
    /\ UNCHANGED <<pc, body, args, env, loop, acc, pending, ret, response,
                   requests, prev, interleaved, route, plot, visualization,
                   call>>

\* the user submits the form: handleSolveEquation up to its await, and the
\* update of SolverOutput that follows
SubmitEquation ==
    /\ page.mounted
    /\ CanSubmit(page)
    /\ page' = [page EXCEPT !.isLoading = TRUE,
                            !.currentEquation = Trim(page.equation),
                            !.request = SolveRequest(page.version, Trim(page.equation)),
                            !.output = componentDidUpdate(@, page.currentEquation,
                                                          Trim(page.equation))]
    /\ UNCHANGED <<pc, body, args, env, loop, acc, pending, ret, response,
                   requests, prev, interleaved, route, plot, visualization,
                   call>>

\* the requests the page can issue
SolveRequests ==
    {SolveRequest(version, Trim(equation)) :
        version \in SolverVersions, equation \in FormValues}

\* the request in flight is answered with answer and handleSolveEquation
\* resumes
Settle(request, answer) ==
    /\ page.mounted
    /\ page.request = request
    /\ page' = [page EXCEPT !.solution = SolutionOf(page.version, answer),
                            !.isLoading = FALSE,
                            !.request = NoRoute]
    /\ UNCHANGED <<pc, body, args, env, loop, acc, pending, ret, response,
                   requests, prev, interleaved, route, plot, visualization,
                   call>>

\* the application answers the request of the page
SettleRequest ==
    \E request \in SolveRequests :
        \E production \in BOOLEAN : \E outcome \in SolveOutcomes :
            Settle(request,
                   Normalized(ServerAnswer(request, production, outcome)))

NextSolver ==
    \/ MountSolver
    \/ EditEquation
    \/ SubmitEquation
    \/ SettleRequest

SpecSolver == Init /\ [][NextSolver]_vars

(***************************************************************************)
(* Properties of the Solver page                                           *)
(***************************************************************************)
\* a solve request of the page is in flight
Requesting == page.mounted /\ page.request # NoRoute

\* C20: every solve request the Solver page issues targets the method and
\* the path POST /api/math/solve under which the backend mounts the solve
\* handler, so that a submitted equation reaches the solve handler.
C20_SolveRequestRouted ==
    Requesting =>
        /\ page.request.method = "POST"
        /\ page.request.path = <<"api", "math", "solve">>
        /\ \A production \in BOOLEAN :
               ExpressRoute(page.request.method, page.request.path, production)
                   = <<"POST", <<"api", "math", "solve">>>>

\* what holds instead: the page that calls axios posts to /api/solve, which
\* no route of the application matches, and what it shows after a request is
\* the fixed error of its catch; the page that calls fetch posts to
\* /api/math/solve
C20_AxiosNeverRouted ==
    /\ Requesting /\ page.version = "axios" =>
           /\ page.request.path = <<"api", "solve">>
           /\ \A production \in BOOLEAN :
                  ExpressRoute(page.request.method, page.request.path, production)
                      = <<>>
    /\ Requesting /\ page.version = "fetch" =>
           page.request.path = <<"api", "math", "solve">>
    /\ (/\ page.mounted
        /\ page.version = "axios"
        /\ page.solution # [null |-> TRUE]) =>
           page.solution = [success |-> FALSE, error |-> "Failed to solve equation",
                            type |-> "error"]

\* the page that calls axios has submitted x^2 + 1 and shows the error
C20_FailedToSolve ==
    /\ page.mounted
    /\ page.version = "axios"
    /\ page.currentEquation = ExprPolynomial
    /\ ~page.isLoading
    /\ page.solution = [success |-> FALSE, error |-> "Failed to solve equation",
                        type |-> "error"]

\* the page that calls fetch has submitted x^2 + 1 and shows the result
C20_FetchSolved ==
    /\ page.mounted
    /\ page.version = "fetch"
    /\ page.currentEquation = ExprPolynomial
    /\ ~page.isLoading
    /\ Has(page.solution, "success")
    /\ page.solution.success


(***************************************************************************)
(* The two mesh builders called on their own with the same arguments:      *)
(* useFunction3D of Plot3D.js and generate3DData of plot3dSolver.js.       *)
(***************************************************************************)
\* a function is called on its own and returns
Calling(returned) ==
    /\ call = NoCall
    /\ call' = returned
    /\ UNCHANGED <<pc, body, args, env, loop, acc, pending, ret, response,
                   requests, prev, interleaved, route, plot, page, visualization>>

\* x in [1, 2], y in [1, 3]
AwayFromZero == [x |-> <<Num(1), Num(2)>>, y |-> <<Num(1), Num(3)>>]

MeshEquations == {Paraboloid, Ratio, UndefinedZ}
MeshDomains == {UnitSquare, FromZero, AwayFromZero,
                [x |-> <<Num(-2), Num(2)>>, y |-> <<Num(-1), Num(3)>>]}
MeshResolutions == {4, 5, 6, 7, 8, 9, 10, 11, 12}

\* both builders on equation, domain and resolution, without parameters
BuildMeshes(equation, domain, resolution) ==
    [function |-> "mesh",
     equation |-> equation, domain |-> domain, resolution |-> resolution,
     hook |-> useFunction3D(equation, domain, Num(resolution)),
     generated |-> GenerateAlone([equation |-> equation, domain |-> domain,
                                  resolution |-> Num(resolution),
                                  parameters |-> <<>>])]

CallMeshBuilders ==
    \E equation \in MeshEquations : \E domain \in MeshDomains :
        \E resolution \in MeshResolutions :
            Calling(Normalized(BuildMeshes(equation, domain, resolution)))

NextMesh == CallMeshBuilders

SpecMesh == Init /\ [][NextMesh]_vars

\* the two meshes differ at most in the z of samples that one builder has
\* as 0.001 and the other as 0
SameUpToPlaceholder(hook, generated) ==
    /\ generated.kind = "return"
    /\ hook.indices = generated.indices
    /\ Len(hook.vertices) = Len(generated.vertices)
    /\ \A k \in DOMAIN hook.vertices :
           \/ hook.vertices[k] = generated.vertices[k]
           \/ /\ k % 3 = 0
              /\ hook.vertices[k] = Placeholder
              /\ generated.vertices[k] = Zero

\* C21: useFunction3D and generate3DData are equivalent up to the
\* invalid-sample placeholder: for the same equation (without parameters or
\* the constants pi and e), domain and integer resolution they produce the
\* same index array and the same x, y and z for every valid sample, and
\* differ only in the z of invalid samples (0.001 against 0).
C21_Equivalent ==
    call.function = "mesh" => SameUpToPlaceholder(call.hook, call.generated)

\* what holds instead: they are equivalent for a resolution in [10, 100]
\* and a domain none of whose four bounds is 0
C21_EquivalentInRange ==
    (/\ call.function = "mesh"
     /\ call.resolution \in MinResolution .. MaxResolution
     /\ \A k \in 1 .. 2 : ~Falsy(call.domain.x[k]) /\ ~Falsy(call.domain.y[k]))
        => SameUpToPlaceholder(call.hook, call.generated)

\* at resolution 5 the hook has 36 vertices and generate3DData 121
C21_HookNotClamped ==
    /\ call.function = "mesh"
    /\ call.resolution = 5
    /\ Len(call.hook.vertices) = 3 * 36
    /\ Len(call.generated.vertices) = 3 * 121

\* over x in [0, 2] the hook starts at x = 0 and generate3DData at x = -5
C21_DomainReplaced ==
    /\ call.function = "mesh"
    /\ call.resolution = MinResolution
    /\ call.domain = FromZero
    /\ call.hook.vertices[1] = Zero
    /\ call.generated.vertices[1] = Num(DefaultMin)

\* the two meshes of x / y over the unit square at resolution 10 differ in
\* the z of the samples with y = 0 and in nothing else
C21_PlaceholdersDiffer ==
    /\ call.function = "mesh"
    /\ call.equation = Ratio
    /\ call.domain = UnitSquare
    /\ call.resolution = MinResolution
    /\ call.hook.vertices # call.generated.vertices
    /\ SameUpToPlaceholder(call.hook, call.generated)


(***************************************************************************)
(* Properties of the steps of a result                                     *)
(***************************************************************************)
\* solveMathExpression returned a successful result for the request of slot c
SolvedWithSuccess(c) == Solved(c) /\ ret[c].result.success

\* the step numbers of steps are 1, 2, ..., k in list order
NumberedInOrder(steps) ==
    /\ steps # <<>>
    /\ \A k \in DOMAIN steps : steps[k].step = k

\* C22: in every successful result of solveMathExpression the steps list is
\* non-empty and its step numbers are exactly 1, 2, ..., k in list order with
\* no duplicate and no gap, on every path, the manual equation-solving
\* fallback taken when the call of solve fails included.
C22_StepsNumbered ==
    \A c \in Calls :
        SolvedWithSuccess(c) => NumberedInOrder(ret[c].result.steps)

\* what holds instead: the list is non-empty, starts at 1, and a step has
\* the number of the one before it or the next number; it is numbered in
\* order on every path but that of the manual fallback
C22_StepsNeverSkip ==
    \A c \in Calls :
        SolvedWithSuccess(c) =>
            LET steps == ret[c].result.steps
            IN  /\ steps # <<>>
                /\ steps[1].step = 1
                /\ \A k \in DOMAIN steps :
                       k > 1 => steps[k].step \in {steps[k - 1].step, steps[k - 1].step + 1}
                /\ "solve" \notin ret[c].failed => NumberedInOrder(steps)

\* solve(x^2 - 4, x) with solve throwing: the fallback returns the steps
\* 1, 2, 2
C22_DuplicateStep ==
    /\ SolvedWithSuccess(1)
    /\ body[1] = [expression |-> ExprSolve]
    /\ ret[1].failed = {"solve"}
    /\ Len(ret[1].result.steps) = 3
    /\ ret[1].result.steps[2].step = 2
    /\ ret[1].result.steps[3].step = 2

\* ---------------------------------------------------------------------------
\* SolverOutput of frontend/src/pages/Solver.js: the pages of steps

\* result?.steps?.length || 0
StepCount(result) ==
    IF ~Has(result, "null") /\ Has(result, "steps") THEN Len(result.steps) ELSE 0

\* SolverOutput.getTotalPages
getTotalPages(output, result) ==
    LET totalSteps == StepCount(result)
        pages == (totalSteps + output.pageSize - 1) \div output.pageSize
    IN  IF pages < 1 THEN 1 ELSE pages

\* SolverOutput.getPagedSteps
getPagedSteps(output, result) ==
    LET steps == IF StepCount(result) = 0 THEN <<>> ELSE result.steps
        start == (output.currentPage - 1) * output.pageSize
        last  == IF start + output.pageSize < Len(steps) THEN start + output.pageSize
                 ELSE Len(steps)
    IN  SubSeq(steps, start + 1, last)

\* render of SolverOutput shows the pagination controls
StepsRendered(result) ==
    /\ ~Has(result, "null")
    /\ Has(result, "success") /\ result.success = TRUE
    /\ StepCount(result) > 0

\* SolverOutput.changePage
changePage(output, result, delta) ==
    LET total == getTotalPages(output, result)
        moved == output.currentPage + delta
        low   == IF moved < 1 THEN 1 ELSE moved
    IN  [output EXCEPT !.currentPage = IF low < total THEN low ELSE total]

\* the user clicks Prev (delta -1) or Next (delta 1), where the button is
\* rendered and not disabled
ChangePage ==
    /\ page.mounted
    /\ page.version = "axios"
    /\ StepsRendered(page.solution)
    /\ \E delta \in {-1, 1} :
           /\ delta = -1 => page.output.currentPage # 1
           /\ delta = 1 =>
                  page.output.currentPage # getTotalPages(page.output, page.solution)
           /\ page' = [page EXCEPT !.output = changePage(@, page.solution, delta)]
    /\ UNCHANGED <<pc, body, args, env, loop, acc, pending, ret, response,
                   requests, prev, interleaved, route, plot, visualization,
                   call>>

\* the answer of a server whose POST /api/solve is the solve handler of the
\* router (router.post("/solve"), "POST /api/solve" in its comment)
SolveHandlerAnswer(request, outcome) ==
    [json |-> TRUE, handled |-> MathSolveRoute(request.body, outcome)]

\* the request of the page is answered by the solve handler
SettleSolved ==
    \E request \in SolveRequests : \E outcome \in SolveOutcomes :
        Settle(request, Normalized(SolveHandlerAnswer(request, outcome)))

NextOutput ==
    \/ MountSolver
    \/ EditEquation
    \/ SubmitEquation
    \/ SettleRequest
    \/ SettleSolved
    \/ ChangePage

SpecOutput == Init /\ [][NextOutput]_vars

\* SolverOutput is showing a result with steps
ShowingSteps ==
    /\ page.mounted
    /\ page.version = "axios"
    /\ StepsRendered(page.solution)

\* C23: whatever the order of Prev and Next clicks, submissions and arrivals
\* of the answer, the current page of SolverOutput lies between 1 and the
\* number of pages of the result it displays, and the page of steps it shows
\* is not empty when the result has steps.
C23_PageInRange ==
    ShowingSteps =>
        /\ 1 <= page.output.currentPage
        /\ page.output.currentPage <= getTotalPages(page.output, page.solution)
        /\ getPagedSteps(page.output, page.solution) # <<>>

\* C23, what holds: the current page is never below 1.
C23_PageAtLeastOne ==
    (page.mounted /\ page.version = "axios") => page.output.currentPage >= 1

\* C23: a result of one page is displayed while the current page is 2
C23_EmptyPage ==
    /\ ShowingSteps
    /\ page.output.currentPage = 2
    /\ getTotalPages(page.output, page.solution) = 1
    /\ getPagedSteps(page.output, page.solution) = <<>>

\* C23: the second page of a result of six steps is displayed
C23_SecondPage ==
    /\ ShowingSteps
    /\ page.output.currentPage = 2
    /\ getTotalPages(page.output, page.solution) = 2
    /\ Len(getPagedSteps(page.output, page.solution)) = 1

\* ---------------------------------------------------------------------------
\* GraphVisualizer of frontend/src/pages/Visualization.js: the 2D sampling
\* loop.  visualization is the Visualization page in its "2d" mode: equation
\* and domain are its state, graph the run of the useMemo callback of
\* GraphVisualizer: x the loop variable, step its increment, points the
\* number of points pushed, iterations the number of iterations executed.
\* The two counters wrap at CounterWrap to keep the state finite; a run that
\* ends takes fewer iterations.

SamplesPerDomain == 200
CounterWrap == 256

OneOverX == <<Lit(Num(1)), Op("/"), Sym("x")>>

GraphEquations == {XSquared, OneOverX}

\* Number(e.target.value) of the two number inputs
DomainValues == {Num(-10), Num(0), Num(10)}

\* the start of the useMemo callback: const [min, max] = domain; step; x = min
StartSampling(domain) ==
    [running |-> TRUE, x |-> domain[1],
     step |-> Div(Sub(domain[2], domain[1]), Num(SamplesPerDomain)),
     points |-> 0, iterations |-> 0]

\* useState("x^2"), useState([-10, 10]), useState("2d") and the first render
\* of GraphVisualizer
InitialVisualization ==
    [mounted |-> TRUE, mode |-> "2d", equation |-> XSquared,
     domain |-> <<Num(-10), Num(10)>>,
     graph |-> StartSampling(<<Num(-10), Num(10)>>)]

\* the body of the loop: is the sample at x pushed
SamplePushed(equation, x) ==
    LET y == Evaluate(ReplaceWord(equation, "x", Parenthesised(x)))
    IN  y.ok /\ IsFinite(y.v)

\* the router of App.js renders the Visualization page
MountVisualization ==
    /\ ~visualization.mounted
    /\ visualization' = InitialVisualization
    /\ UNCHANGED <<pc, body, args, env, loop, acc, pending, ret, response,
                   requests, prev, interleaved, route, plot, page, call>>

Sampling ==
    /\ visualization.mounted
    /\ visualization.mode = "2d"
    /\ visualization.graph.running

Sampled ==
    /\ visualization.mounted
    /\ visualization.mode = "2d"
    /\ ~visualization.graph.running

\* one iteration of the for loop, its test x <= max included; pushed tells
\* whether the sample is pushed
SampleIteration(pushed) ==
    /\ Sampling
    /\ Leq(visualization.graph.x, visualization.domain[2])
    /\ visualization' =
           [visualization EXCEPT
               !.graph.points = IF pushed THEN (@ + 1) % CounterWrap ELSE @,
               !.graph.iterations = (@ + 1) % CounterWrap,
               !.graph.x = Add(@, visualization.graph.step)]
    /\ UNCHANGED <<pc, body, args, env, loop, acc, pending, ret, response,
                   requests, prev, interleaved, route, plot, page, call>>

SampleStep ==
    \E pushed \in BOOLEAN :
        /\ Sampling
        /\ pushed = SamplePushed(visualization.equation, visualization.graph.x)
        /\ SampleIteration(pushed)

\* the loop executes an iteration, whatever its sample
Iterates == \E pushed \in BOOLEAN : SampleIteration(pushed)

\* the test x <= max fails: return data
SampleReturn ==
    /\ Sampling
    /\ ~Leq(visualization.graph.x, visualization.domain[2])
    /\ visualization' = [visualization EXCEPT !.graph.running = FALSE]
    /\ UNCHANGED <<pc, body, args, env, loop, acc, pending, ret, response,
                   requests, prev, interleaved, route, plot, page, call>>

\* onChange of a domain input (bound 1 is the start, 2 the end) and the
\* render that follows; no handler runs while the loop does
SetDomain ==
    /\ Sampled
    /\ \E bound \in {1, 2} : \E value \in DomainValues :
           /\ visualization.domain[bound] # value
           /\ LET domain == [visualization.domain EXCEPT ![bound] = value]
              IN  visualization' = [visualization EXCEPT
                                       !.domain = domain,
                                       !.graph = StartSampling(domain)]
    /\ UNCHANGED <<pc, body, args, env, loop, acc, pending, ret, response,
                   requests, prev, interleaved, route, plot, page, call>>

\* onChange of the equation input and the render that follows
SetEquation ==
    /\ Sampled
    /\ \E equation \in GraphEquations \ {visualization.equation} :
           visualization' = [visualization EXCEPT
                                !.equation = equation,
                                !.graph = StartSampling(visualization.domain)]
    /\ UNCHANGED <<pc, body, args, env, loop, acc, pending, ret, response,
                   requests, prev, interleaved, route, plot, page, call>>

NextGraph ==
    \/ MountVisualization
    \/ SampleStep
    \/ SampleReturn
    \/ SetDomain
    \/ SetEquation

\* the loop runs to its end without yielding: a started callback keeps
\* executing its next iteration or its return
SpecGraph ==
    Init /\ [][NextGraph]_vars /\ WF_vars(Iterates) /\ WF_vars(SampleReturn)

\* C24: for every domain the two inputs can produce, min = max and min > max
\* included, the sampling loop of GraphVisualizer ends.
C24_SamplingTerminates == Sampling ~> Sampled

\* C24, what holds: the loop ends whenever min differs from max, after 201
\* iterations when min < max and after none when min > max.
C24_TerminatesOffDiagonal ==
    (Sampling /\ visualization.domain[1] # visualization.domain[2]) ~> Sampled

\* C24: the loop has ended with no point for a domain with min > max
C24_EmptyGraph ==
    /\ Sampled
    /\ Lt(visualization.domain[2], visualization.domain[1])
    /\ visualization.graph.points = 0
    /\ visualization.graph.iterations = 0

\* C24: the loop has ended with 201 points for the initial domain
C24_FullGraph ==
    /\ Sampled
    /\ visualization.domain = <<Num(-10), Num(10)>>
    /\ visualization.graph.points = SamplesPerDomain + 1

\* C24: the loop is past the iterations of any run that ends, with min = max
C24_StillSampling ==
    /\ Sampling
    /\ visualization.domain[1] = visualization.domain[2]
    /\ visualization.graph.step = Zero
    /\ visualization.graph.iterations > SamplesPerDomain + 1

\* ---------------------------------------------------------------------------
\* AnimationSequences: playback of the concept animations.  visualization is
\* the component in the "animations" mode of the page: currentAnimation and
\* isPlaying are its state, progress the state of useAnimationControl in the
\* animation it renders, completed whether onComplete has been called.

TickMillis == 100
FullProgress == 100

\* the duration each animation passes to useAnimationControl
AnimationDuration(animation) == IF animation = "derivative" THEN 6000 ELSE 8000

Animations == {"derivative", "integration"}

\* useState('derivative'), useState(false), and useState(0) of the hook
InitialAnimations ==
    [mounted |-> TRUE, mode |-> "animations", currentAnimation |-> "derivative",
     isPlaying |-> FALSE, progress |-> Zero, completed |-> FALSE]

\* the updater given to setProgress by the interval callback
setProgress(before, duration) ==
    LET newProgress == Add(before, Div(Num(FullProgress),
                                       Div(Num(duration), Num(TickMillis))))
    IN  IF Leq(Num(FullProgress), newProgress) THEN Zero ELSE newProgress

\* the effect of the animation on [progress, onComplete]: is onComplete called
CompletionObserved(progress) == Leq(Num(FullProgress), progress)

\* the page is switched to its animations mode
MountAnimations ==
    /\ ~visualization.mounted
    /\ visualization' = InitialAnimations
    /\ UNCHANGED <<pc, body, args, env, loop, acc, pending, ret, response,
                   requests, prev, interleaved, route, plot, page, call>>

Animating == visualization.mounted /\ visualization.mode = "animations"

Playing == Animating /\ visualization.isPlaying

\* handlePlayPause
PlayPause ==
    /\ Animating
    /\ visualization' = [visualization EXCEPT !.isPlaying = ~@]
    /\ UNCHANGED <<pc, body, args, env, loop, acc, pending, ret, response,
                   requests, prev, interleaved, route, plot, page, call>>

\* handleReset
ResetAnimation ==
    /\ Animating
    /\ visualization' = [visualization EXCEPT !.isPlaying = FALSE]
    /\ UNCHANGED <<pc, body, args, env, loop, acc, pending, ret, response,
                   requests, prev, interleaved, route, plot, page, call>>

\* a tab of the selector: the other animation is mounted in place of this one
SelectAnimation ==
    /\ Animating
    /\ \E animation \in Animations \ {visualization.currentAnimation} :
           visualization' = [visualization EXCEPT !.currentAnimation = animation,
                                                  !.progress = Zero]
    /\ UNCHANGED <<pc, body, args, env, loop, acc, pending, ret, response,
                   requests, prev, interleaved, route, plot, page, call>>

\* the interval of useAnimationControl fires and its updater returns
\* progress: the render and the effect of the animation, whose onComplete is
\* handleAnimationComplete
TickTo(progress) ==
    /\ Playing
    /\ visualization' =
           [visualization EXCEPT
               !.progress = progress,
               !.completed = @ \/ CompletionObserved(progress),
               !.isPlaying = IF CompletionObserved(progress) THEN FALSE ELSE @]
    /\ UNCHANGED <<pc, body, args, env, loop, acc, pending, ret, response,
                   requests, prev, interleaved, route, plot, page, call>>

AnimationTick ==
    TickTo(setProgress(visualization.progress,
                       AnimationDuration(visualization.currentAnimation)))

\* the values of progress: the multiples of the two increments up to 100
ProgressValues == {Norm(5 * k, 12) : k \in 0 .. 240}

\* the interval fires, whatever its updater returns
IntervalFires == \E progress \in ProgressValues : TickTo(progress)

NextAnimations ==
    \/ MountAnimations
    \/ PlayPause
    \/ ResetAnimation
    \/ SelectAnimation
    \/ AnimationTick

\* setInterval fires every 100 ms for as long as isPlaying
SpecAnimations == Init /\ [][NextAnimations]_vars /\ WF_vars(IntervalFires)

\* C25: once playback is started, the animation reaches its end, onComplete
\* is called and isPlaying becomes false: playback that is left playing stops.
C25_PlaybackStops == Playing ~> (Animating /\ ~visualization.isPlaying)

\* C25, what holds: the progress the animation observes stays below 100 and
\* onComplete is never called.
C25_NeverComplete ==
    Animating => /\ Lt(visualization.progress, Num(FullProgress))
                 /\ ~visualization.completed

\* C25: playback is one tick before the end of the derivative animation
C25_LastFrame ==
    /\ Playing
    /\ visualization.currentAnimation = "derivative"
    /\ setProgress(visualization.progress, 6000) = Zero
    /\ visualization.progress # Zero

\* ---------------------------------------------------------------------------
\* validate3DExpression and the declared parameters

\* the elements of an array
Elements(arr) == {arr[k] : k \in DOMAIN arr}

\* the names the parameters map of slot c declares with a finite number
DeclaredFinite(c) ==
    {ParametersOf(c)[k].name :
        k \in {j \in DOMAIN ParametersOf(c) : IsFinite(ParametersOf(c)[j].value)}}

\* C26: a symbol declared in the parameters map with a finite number, 0
\* included, is not in the variables validate3DExpression returns and causes
\* no "Undefined variables" warning: such a warning comes with a variable
\* that is not declared.
C26_DeclaredNeverUndefined ==
    \A c \in Calls :
        Validated(c) =>
            /\ DeclaredFinite(c) \cap Elements(ret[c].variables) = {}
            /\ "Undefined variables" \in Elements(ret[c].warnings) =>
                   Elements(ret[c].variables) \ DeclaredFinite(c) # {}

\* C26, what holds: a symbol declared with a finite number other than 0 is
\* not in the variables returned.
C26_DeclaredNonZero ==
    \A c \in Calls :
        Validated(c) =>
            \A k \in DOMAIN ParametersOf(c) :
                (IsFinite(ParametersOf(c)[k].value) /\ ParametersOf(c)[k].value # Zero)
                    => ParametersOf(c)[k].name \notin Elements(ret[c].variables)

\* C26: x + y + z with z declared as 0 is reported invalid for its undefined
\* variable z
C26_ZeroUndeclared ==
    \E c \in Calls :
        /\ Validated(c)
        /\ body[c].equation = UndefinedZ
        /\ ParametersOf(c) = <<[name |-> "z", value |-> Zero]>>
        /\ ret[c].variables = <<"z">>
        /\ "Undefined variables" \in Elements(ret[c].warnings)
        /\ ~ret[c].isValid

\* C26: x + y + z with z declared as 3 is reported valid
C26_NonZeroDeclared ==
    \E c \in Calls :
        /\ Validated(c)
        /\ body[c].equation = UndefinedZ
        /\ ParametersOf(c) = <<[name |-> "z", value |-> Num(3)]>>
        /\ ret[c].variables = <<>>
        /\ ret[c].isValid

\* ---------------------------------------------------------------------------
\* InteractiveManipulator and its AnimationSequence, under the Visualization
\* page that holds the parameters.  visualization is the page in its
\* "interactive" mode: parameters is its state, isAnimating that of
\* InteractiveManipulator and currentStep that of AnimationSequence.  An entry
\* of parameters is a configuration object (isConfig, with min and max) or a
\* plain number; a number is n, or, with wave, the value
\* min + (max - min) * (sin(2 * pi * i / 99) + 1) / 2 of animation step i,
\* kept as that term: two steps of one range have different values.

AnimationSteps == 100

\* the keys of parameters, in the order Object.keys gives them
ParameterNames == <<"a", "b", "c">>

PlainNumber(n) ==
    [isConfig |-> FALSE, wave |-> FALSE, i |-> 0, min |-> Zero, max |-> Zero, n |-> n]

Configured(value, min, max) ==
    [isConfig |-> TRUE, wave |-> FALSE, i |-> 0, min |-> min, max |-> max, n |-> value]

\* useState({ a: 1, b: 0, c: 0 }) of the page
InitialParameters ==
    [name \in {"a", "b", "c"} |-> IF name = "a" THEN PlainNumber(Num(1))
                                  ELSE PlainNumber(Zero)]

\* the parameters of two of the parameterizedFunctions of the page
PresetParameters ==
    {[name \in {"a", "b", "c"} |->
         Configured(IF name = "a" THEN Num(1) ELSE Zero, Num(-5), Num(5))],
     [name \in {"a", "b", "c"} |->
         Configured(IF name = "c" THEN Zero ELSE Num(1), Num(-2), Num(2))]}

\* animationSteps[i][param]: min and max of a plain number are undefined and
\* the value is NaN
StepValue(parameters, i, param) ==
    IF parameters[param].isConfig
    THEN [isConfig |-> FALSE, wave |-> TRUE, i |-> i,
          min |-> parameters[param].min, max |-> parameters[param].max, n |-> Zero]
    ELSE PlainNumber(NaN)

\* InteractiveManipulator.handleParameterChange(name, value) with parameters
\* the prop of the render it was created in: the object given to the page
handleParameterChange(parameters, name, value) ==
    [parameters EXCEPT ![name] = value]

\* the forEach of a tick from entry k on: every call is made by the
\* handleParameterChange of one render, and the page's setParameters keeps the
\* object of the call
RECURSIVE UpdateAll(_, _, _, _)
UpdateAll(held, closure, i, k) ==
    IF k > Len(ParameterNames) THEN held
    ELSE UpdateAll(handleParameterChange(closure, ParameterNames[k],
                                         StepValue(closure, i, ParameterNames[k])),
                   closure, i, k + 1)

InitialManipulator ==
    [mounted |-> TRUE, mode |-> "interactive", parameters |-> InitialParameters,
     isAnimating |-> FALSE, currentStep |-> 0]

\* the page is switched to its interactive mode
MountManipulator ==
    /\ ~visualization.mounted
    /\ visualization' = InitialManipulator
    /\ UNCHANGED <<pc, body, args, env, loop, acc, pending, ret, response,
                   requests, prev, interleaved, route, plot, page, call>>

Interacting == visualization.mounted /\ visualization.mode = "interactive"

\* handlePresetSelect
SelectPreset ==
    /\ Interacting
    /\ \E preset \in PresetParameters \ {visualization.parameters} :
           visualization' = [visualization EXCEPT !.parameters = preset]
    /\ UNCHANGED <<pc, body, args, env, loop, acc, pending, ret, response,
                   requests, prev, interleaved, route, plot, page, call>>

\* onToggle of AnimationSequence
ToggleAnimation ==
    /\ Interacting
    /\ visualization' = [visualization EXCEPT !.isAnimating = ~@]
    /\ UNCHANGED <<pc, body, args, env, loop, acc, pending, ret, response,
                   requests, prev, interleaved, route, plot, page, call>>

\* a ParameterSlider is dragged to 2
SlideParameter ==
    /\ Interacting
    /\ \E k \in DOMAIN ParameterNames :
           /\ visualization.parameters[ParameterNames[k]] # PlainNumber(Num(2))
           /\ visualization' =
                  [visualization EXCEPT
                      !.parameters = handleParameterChange(@, ParameterNames[k],
                                                           PlainNumber(Num(2)))]
    /\ UNCHANGED <<pc, body, args, env, loop, acc, pending, ret, response,
                   requests, prev, interleaved, route, plot, page, call>>

\* the interval of AnimationSequence fires: the updater of setCurrentStep
\* and the calls of onParameterChange it makes
ParameterTick ==
    /\ Interacting
    /\ visualization.isAnimating
    /\ LET nextStep == (visualization.currentStep + 1) % AnimationSteps
       IN  visualization' =
               [visualization EXCEPT
                   !.currentStep = nextStep,
                   !.parameters = UpdateAll(@, @, nextStep, 1)]
    /\ UNCHANGED <<pc, body, args, env, loop, acc, pending, ret, response,
                   requests, prev, interleaved, route, plot, page, call>>

NextManipulator ==
    \/ MountManipulator
    \/ SelectPreset
    \/ ToggleAnimation
    \/ SlideParameter
    \/ ParameterTick

SpecManipulator == Init /\ [][NextManipulator]_vars

\* a step that is a tick of the parameter animation
TickTaken ==
    /\ Interacting
    /\ visualization'.currentStep # visualization.currentStep

\* C27: after each tick of the parameter animation every parameter holds the
\* value of the new animation step: no call of the tick overwrites the update
\* of another.
C27_AllParametersStepped ==
    [][TickTaken =>
          \A k \in DOMAIN ParameterNames :
              visualization'.parameters[ParameterNames[k]]
                  = StepValue(visualization.parameters, visualization'.currentStep,
                              ParameterNames[k])]_vars

\* C27, what holds: after each tick the last parameter holds the value of the
\* new step and every other parameter is as it was before the tick.
C27_OnlyLastStepped ==
    [][TickTaken =>
          \A k \in DOMAIN ParameterNames :
              visualization'.parameters[ParameterNames[k]]
                  = IF k = Len(ParameterNames)
                    THEN StepValue(visualization.parameters,
                                   visualization'.currentStep, ParameterNames[k])
                    ELSE visualization.parameters[ParameterNames[k]]]_vars

\* C27: after a tick on configured parameters, c holds the value of step 1
\* and a is still its configuration
C27_FirstOverwritten ==
    /\ Interacting
    /\ visualization.currentStep = 1
    /\ visualization.parameters["c"].wave
    /\ visualization.parameters["c"].i = 1
    /\ visualization.parameters["a"].isConfig

\* ---------------------------------------------------------------------------
\* POST /surface: the counts of the response

\* slot c has answered its /surface request with a surface
SurfaceAnswered(c) ==
    /\ pc[c] = "responded"
    /\ route[c].path = <<"api", "plot3d", "surface">>
    /\ Has(response[c], "data")

\* C28: for every resolution the /surface route accepts, an integer or not,
\* statistics.totalPoints = vertices.length / 3 = metadata.pointCount, and
\* validPoints + invalidPoints = totalPoints with both counts non-negative
\* integers.
C28_CountsAgree ==
    \A c \in Calls :
        SurfaceAnswered(c) =>
            LET st == response[c].data.statistics
            IN  /\ st.totalPoints = Norm(Len(response[c].data.vertices), 3)
                /\ st.totalPoints = response[c].metadata.pointCount
                /\ Add(Num(st.validPoints), st.invalidPoints) = st.totalPoints
                /\ st.validPoints >= 0
                /\ IsInteger(st.invalidPoints) /\ Leq(Zero, st.invalidPoints)

\* C28, what holds: the counts agree for every integer resolution, and for
\* every resolution validPoints + invalidPoints = totalPoints and
\* metadata.pointCount = vertices.length / 3.
C28_CountsAgreeOnIntegers ==
    \A c \in Calls :
        SurfaceAnswered(c) =>
            LET st == response[c].data.statistics
            IN  /\ Add(Num(st.validPoints), st.invalidPoints) = st.totalPoints
                /\ response[c].metadata.pointCount
                       = Norm(Len(response[c].data.vertices), 3)
                /\ st.validPoints >= 0
                /\ IsInteger(st.resolution) =>
                       /\ st.totalPoints = response[c].metadata.pointCount
                       /\ IsInteger(st.invalidPoints) /\ Leq(Zero, st.invalidPoints)

\* C28: the response for resolution 10.5 counts 132.25 points for 121
\* vertices
C28_FractionalTotal ==
    \E c \in Calls :
        /\ SurfaceAnswered(c)
        /\ response[c].data.statistics.resolution = Norm(2 * MinResolution + 1, 2)
        /\ response[c].metadata.pointCount = Num((MinResolution + 1) * (MinResolution + 1))
        /\ ~IsInteger(response[c].data.statistics.totalPoints)
        /\ ~IsInteger(response[c].data.statistics.invalidPoints)

\* C28: a response for the resolution 11 whose counts agree
C28_IntegerTotal ==
    \E c \in Calls :
        /\ SurfaceAnswered(c)
        /\ response[c].data.statistics.resolution = Num(MinResolution + ResolutionSpan)
        /\ response[c].data.statistics.totalPoints = response[c].metadata.pointCount

\* ---------------------------------------------------------------------------
\* components/Plot3D.js: the index array as a Uint16Array

Uint16Range == 65536

\* the conversion of an integer to an element of a Uint16Array
ToUint16(v) == Num(v[1] % Uint16Range)

\* the corner index (resolution + 1)^2 - 1 of a grid
LastVertex(resolution) == Num((resolution + 1) * (resolution + 1) - 1)

\* the quads (i, j) the index loops of useFunction3D go through for an
\* integer resolution
HookQuads(resolution) == (0 .. resolution - 1) \X (0 .. resolution - 1)

\* what becomes of the indices of the quads: is an index above the last
\* vertex, does the conversion change it
IndexOutcomes(resolution) ==
    UNION {{[above |-> ~Leq(v, LastVertex(resolution)),
             wrapped |-> ToUint16(v) # v] :
                v \in Elements(HookQuad(q[1], q[2], Num(resolution)))} :
           q \in HookQuads(resolution)}

\* up to which resolution the indices are compared with the array the loops
\* build
LoopCheckedResolution == 12

\* a resolution whose grid has more than 2^16 points
WrappingResolution == 256

IndexResolutions == (1 .. SliderMax) \cup {WrappingResolution}

\* new Uint16Array(indices) for the indices of a resolution: whether the
\* last quad reaches the last vertex of the grid, whether no index is above
\* it, whether the conversion keeps every index, and whether the indices are
\* those of the array of the loops
ConvertIndices(resolution) ==
    LET outcomes == IndexOutcomes(resolution)
    IN  [function |-> "indices", resolution |-> resolution,
         reachesLast |-> HookQuad(resolution - 1, resolution - 1,
                                  Num(resolution))[5] = LastVertex(resolution),
         upToLast |-> \A o \in outcomes : ~o.above,
         kept |-> \A o \in outcomes : ~o.wrapped,
         asLooped |-> resolution <= LoopCheckedResolution =>
                          UNION {Elements(HookQuad(q[1], q[2], Num(resolution))) :
                                     q \in HookQuads(resolution)}
                              = Elements(HookIndexPass(0, Num(resolution)))]

CallConvertIndices ==
    \E resolution \in IndexResolutions : Calling(Normalized(ConvertIndices(resolution)))

NextIndices == CallConvertIndices

SpecIndices == Init /\ [][NextIndices]_vars

\* C29: for every resolution from 10 to 100 every index of the mesh builder
\* is at most (100 + 1)^2 - 1 = 10200, below 2^16, and the conversion to the
\* Uint16Array changes no index.
C29_IndicesFit ==
    (call.function = "indices" /\ call.resolution \in SliderMin .. SliderMax) =>
        /\ call.upToLast /\ call.reachesLast
        /\ Leq(LastVertex(call.resolution), LastVertex(SliderMax))
        /\ LastVertex(SliderMax) = Num(10200)
        /\ 10200 < Uint16Range
        /\ call.kept
        /\ call.asLooped

\* C29: the indices of resolution 100 reach 10200 and are kept
C29_LargestIndex ==
    /\ call.function = "indices"
    /\ call.resolution = SliderMax
    /\ call.reachesLast /\ call.upToLast
    /\ call.kept

\* C29: at resolution 256 the conversion wraps an index
C29_Wraps ==
    /\ call.function = "indices"
    /\ call.resolution = WrappingResolution
    /\ call.upToLast /\ call.reachesLast
    /\ ~call.kept

\* ---------------------------------------------------------------------------
\* The trigger keywords of the classifier and the extractors of the handlers

\* one call keyword(args) for each trigger keyword that is a word, with the
\* arguments the handler's operation takes
KeywordCalls ==
    {ExprDerivative, ExprDiff, ExprDifferentiate, ExprIntegral, ExprIntegrate,
     ExprSolve, ExprLimit, ExprLimCall}

\* C30: a call keyword(args) the classifier routes to a handler is matched
\* by one of the extraction patterns of that handler: it is not rejected with
\* an "Invalid ... syntax" error.
C30_KeywordsExtracted ==
    \A c \in Calls :
        (Solved(c) /\ body[c].expression \in KeywordCalls) =>
            /\ ret[c].handler \in {"derivative", "integral", "solve", "limit"}
            /\ "extraction" \notin ret[c].failed

\* C30, what holds: the calls of derivative, diff, integral, integrate, solve
\* and limit are extracted.
C30_NamedKeywordsExtracted ==
    \A c \in Calls :
        (Solved(c) /\ body[c].expression
                          \in KeywordCalls \ {ExprDifferentiate, ExprLimCall}) =>
            /\ ret[c].handler \in {"derivative", "integral", "solve", "limit"}
            /\ "extraction" \notin ret[c].failed

\* C30: differentiate(x^2, x) is routed to the derivative handler and
\* rejected for its syntax
C30_DifferentiateRejected ==
    \E c \in Calls :
        /\ Solved(c)
        /\ body[c].expression = ExprDifferentiate
        /\ ret[c].handler = "derivative"
        /\ ret[c].failed = {"extraction"}
        /\ response[c].error
               = "Invalid derivative syntax. Use: derivative(expression, variable)"

\* C30: lim(x, 2, x^2) is routed to the limit handler and rejected for its
\* syntax
C30_LimRejected ==
    \E c \in Calls :
        /\ Solved(c)
        /\ body[c].expression = ExprLimCall
        /\ ret[c].handler = "limit"
        /\ ret[c].failed = {"extraction"}

\* C30: integrate(x^2, x) is extracted and solved
C30_IntegrateSolved ==
    \E c \in Calls :
        /\ Solved(c)
        /\ body[c].expression = ExprIntegrate
        /\ ret[c].handler = "integral"
        /\ ret[c].failed = {}
        /\ response[c].success

====
